---- MODULE Spec2Model ----
(***************************************************************************)
(* Model of the polymarket extension: the paper-trading ledger             *)
(* (paper-trader.ts), the market stream client (websocket.ts), the         *)
(* exchange price feed (binance-feed.ts), the market tracker               *)
(* (btc-tracker.ts), the strategy (strategy.ts) and the agent (agent.ts).  *)
(*                                                                         *)
(* Numbers.  Money is counted in cents, outcome prices in hundredths       *)
(* (0..100 stands for 0.00..1.00) and sizes in whole units, so that        *)
(* cost = price x size is an exact number of cents.  The JavaScript code   *)
(* computes in binary floating point; the model computes the same          *)
(* expressions exactly.                                                    *)
(***************************************************************************)
EXTENDS Integers, Sequences, FiniteSets, TLC

VARIABLES
  \* ---- PaperTrader (paper-trader.ts) ----
  trades,            \* PaperTrader.trades: sequence of PaperTrade records
  startingCapital,   \* PaperTrader.startingCapital (cents)
  currentCapital,    \* PaperTrader.currentCapital (cents)
  tradeIdCounter,    \* PaperTrader.tradeIdCounter
  call,              \* the last ledger call: its name, arguments and result
  \* ---- BTCUpdownStrategy (strategy.ts) ----
  sIn,               \* the arguments of analyze: state, tracker readings, feeds
  sOut,              \* None, or the SignalBreakdown and the generated signal
  \* ---- PolymarketWSClient (websocket.ts), BinanceBTCFeed (binance-feed.ts) ----
  clients,           \* the client objects that exist, by kind
  wanted,            \* the tokens the caller asked for: subscribe() calls since
                     \* the last disconnect() minus unsubscribe() calls
  crashed,           \* an exception left the event loop: the process is gone
  \* ---- PolymarketAgent (agent.ts), BTCUpdownTracker (btc-tracker.ts) ----
  agent,             \* running, checkInterval, currentMarketEndTime and the
                     \* positions of start() and of the runCycle calls in flight
  tracker,           \* currentMarket / marketState and the update callbacks
  now,               \* the current 15-minute window
  \* ---- frames on the market stream (websocket.ts, message handler) ----
  inbox,             \* the frames in flight to the client, oldest first
  frame,             \* the frame the message handler has just run on, or None
  \* ---- PolymarketAgent.stats and the outcome of runCycle (agent.ts) ----
  stats,             \* cyclesCompleted, signalsGenerated, tradesExecuted, errors
  cycle,             \* None, or what the runCycle step just taken came to
  \* ---- calculatePositionSize (strategy.ts) called on its own ----
  sizing,            \* a price and the calls made with it: confidence and size
  \* ---- BTCUpdownTracker (btc-tracker.ts) with its data ----
  btcTracker,        \* currentMarket, marketState, updateCallbacks, tradeHistory
  clock,             \* Date.now()
  trackerCall,       \* the last call on the tracker: its name, argument, result
  \* ---- ChainlinkBTCFeed (chainlink-feed.ts) ----
  poll               \* client, poll timer, prices and the fetches in flight

ledgerVars == <<trades, startingCapital, currentCapital, tradeIdCounter, call>>
strategyVars == <<sIn, sOut>>

streamVars == <<clients, wanted, crashed>>

agentVars == <<agent, tracker, now>>

frameVars == <<inbox, frame>>

loopVars == <<stats, cycle>>

sizingVars == <<sizing>>

trackerVars == <<btcTracker, clock, trackerCall>>

pollVars == <<poll>>

vars == <<trades, startingCapital, currentCapital, tradeIdCounter, call,
          sIn, sOut, clients, wanted, crashed, agent, tracker, now,
          inbox, frame, stats, cycle, sizing, btcTracker, clock, trackerCall, poll>>

\* An optional value: absent, or present with value v.
None == <<>>
Some(v) == <<v>>

\* A quotient kept as its two terms.
Ratio(num, den) == [num |-> num, den |-> den]

Range(f) == {f[i] : i \in DOMAIN f}

Abs(a) == IF a >= 0 THEN a ELSE -a

\* NaN, the number parseFloat makes of a text that is no number: a value
\* outside every range used here.  Arithmetic, Math.min, Math.max and Math.abs
\* on NaN give NaN, and every comparison with NaN is false.
NaN == -(2^30)

\* a * b for numbers that may be NaN
times(a, b) == IF a = NaN \/ b = NaN THEN NaN ELSE a * b
\* a + b for numbers that may be NaN
plus(a, b) == IF a = NaN \/ b = NaN THEN NaN ELSE a + b

\* a - b and a > b for numbers that may be NaN
minus(a, b) == IF a = NaN \/ b = NaN THEN NaN ELSE a - b
greater(a, b) == a # NaN /\ b # NaN /\ a > b

(***************************************************************************)
(* Bounds of the model and the inputs the actions draw from.               *)
(***************************************************************************)
MaxTrades == 2

Outcomes == {"yes", "no"}
EntryPrices == {52, 60}
ExitPrices == {1, 50, 60, 99}
Sizes == {10, 200}
Capitals == {10000, 600}
Reasons == {"manual"}

(***************************************************************************)
(* PaperTrader                                                             *)
(***************************************************************************)
NoCall == [op |-> "none", ret |-> None]

\* constructor(startingCapital)
newPaperTrader(capital) ==
  /\ trades = <<>>
  /\ startingCapital = capital
  /\ currentCapital = startingCapital
  /\ tradeIdCounter = 0
  /\ call = NoCall

\* executeTrade with the capital check written >= instead of > (a trade that uses
\* the whole capital is rejected).
executeTrade_rejectEqual(market, outcome, price, size) ==
  LET cost == times(price, size) IN
  IF cost # NaN /\ currentCapital # NaN /\ cost >= currentCapital
  THEN /\ call' = [op |-> "executeTrade", price |-> price, size |-> size,
                   ret |-> None]
       /\ UNCHANGED <<trades, startingCapital, currentCapital, tradeIdCounter>>
  ELSE LET trade == [id |-> tradeIdCounter + 1, market |-> market,
                     outcome |-> outcome,
                     entryPrice |-> price, size |-> size, cost |-> cost,
                     status |-> "open", exitPrice |-> None, pnl |-> None,
                     closeReason |-> None]
       IN /\ tradeIdCounter' = tradeIdCounter + 1
          /\ trades' = Append(trades, trade)
          /\ currentCapital' = minus(currentCapital, cost)
          /\ call' = [op |-> "executeTrade", price |-> price, size |-> size,
                      ret |-> Some(trade)]
          /\ UNCHANGED startingCapital

\* executeTrade(signal, marketQuestion): the signal carries market, outcome,
\* price, size.  The capital test is false for a cost or a capital that is NaN.
executeTrade(market, outcome, price, size) ==
  LET cost == times(price, size) IN
  IF greater(cost, currentCapital)
  THEN /\ call' = [op |-> "executeTrade", price |-> price, size |-> size,
                   ret |-> None]
       /\ UNCHANGED <<trades, startingCapital, currentCapital, tradeIdCounter>>
  ELSE LET trade == [id |-> tradeIdCounter + 1,
                     market |-> market,
                     outcome |-> outcome,
                     entryPrice |-> price,
                     size |-> size,
                     cost |-> cost,
                     status |-> "open",
                     exitPrice |-> None,
                     pnl |-> None,
                     closeReason |-> None]
       IN /\ tradeIdCounter' = tradeIdCounter + 1
          /\ trades' = Append(trades, trade)
          /\ currentCapital' = minus(currentCapital, cost)
          /\ call' = [op |-> "executeTrade", price |-> price, size |-> size,
                      ret |-> Some(trade)]
          /\ UNCHANGED startingCapital

\* closePnl with the win threshold written > 0.99 instead of >= 0.99.
closePnl_strictWin(trade, exitPrice) ==
  IF exitPrice > 99 THEN times(trade.size, minus(100, trade.entryPrice))
  ELSE IF exitPrice <= 1 THEN minus(0, trade.cost)
  ELSE times(trade.size, minus(exitPrice, trade.entryPrice))

\* The PnL branch of closeTrade (lines 82-91).  A trade of size NaN has cost
\* and pnl NaN.
closePnl(trade, exitPrice) ==
  IF exitPrice >= 99 THEN times(trade.size, minus(100, trade.entryPrice))
  ELSE IF exitPrice <= 1 THEN minus(0, trade.cost)
  ELSE times(trade.size, minus(exitPrice, trade.entryPrice))

\* findOpen without the status test: find(t => t.id === tradeId).
findOpen_anyStatus(ts, tradeId) ==
  LET hits == {i \in 1..Len(ts) : ts[i].id = tradeId}
  IN IF hits = {} THEN 0 ELSE CHOOSE i \in hits : \A j \in hits : i <= j

\* this.trades.find(t => t.id === tradeId && t.status === "open"): the index of
\* the first match, 0 when there is none.
findOpen(ts, tradeId) ==
  LET hits == {i \in 1..Len(ts) : ts[i].id = tradeId /\ ts[i].status = "open"}
  IN IF hits = {} THEN 0 ELSE CHOOSE i \in hits : \A j \in hits : i <= j

\* The effect of closeTrade on the pair (trades, capital), as a value: closeAllTrades
\* calls closeTrade in a loop, so the effect is needed as a function.
closeTradeOn(st, tradeId, exitPrice, reason) ==
  LET i == findOpen(st.trades, tradeId) IN
  IF i = 0 THEN st
  ELSE LET t == st.trades[i]
           pnl == closePnl(t, exitPrice)
           closed == [t EXCEPT !.exitPrice = Some(exitPrice),
                               !.status = "closed",
                               !.closeReason = Some(reason),
                               !.pnl = Some(pnl)]
       IN [trades |-> [st.trades EXCEPT ![i] = closed],
           capital |-> plus(plus(st.capital, t.cost), pnl)]

\* closeTrade(tradeId, exitPrice, reason)
closeTrade(tradeId, exitPrice, reason) ==
  LET st == closeTradeOn([trades |-> trades, capital |-> currentCapital],
                         tradeId, exitPrice, reason)
  IN /\ trades' = st.trades
     /\ currentCapital' = st.capital
     /\ call' = [op |-> "closeTrade", id |-> tradeId, ret |-> None]
     /\ UNCHANGED <<startingCapital, tradeIdCounter>>

\* The settlement price of closeAllTrades (line 117).
settlePrice(outcome, finalOutcome) == IF outcome = finalOutcome THEN 100 ELSE 0

\* The loop of closeAllTrades with an early exit after the first open trade.
closeLoop_firstOnly(st, ids, k, finalOutcome) ==
  IF k > Len(ids) THEN st
  ELSE LET i == CHOOSE j \in 1..Len(st.trades) : st.trades[j].id = ids[k]
       IN closeTradeOn(st, ids[k],
                       settlePrice(st.trades[i].outcome, finalOutcome), "expired")

\* The loop of closeAllTrades over openTrades (the ids of the trades open at the
\* call, in list order), from position k on.
RECURSIVE closeLoop(_, _, _, _)
closeLoop(st, ids, k, finalOutcome) ==
  IF k > Len(ids) THEN st
  ELSE LET i == CHOOSE j \in 1..Len(st.trades) : st.trades[j].id = ids[k]
           exitPrice == settlePrice(st.trades[i].outcome, finalOutcome)
       IN closeLoop(closeTradeOn(st, ids[k], exitPrice, "expired"),
                    ids, k + 1, finalOutcome)

\* this.trades.filter(t => t.status === "open"), as the sequence of their ids.
RECURSIVE openIds(_, _)
openIds(ts, k) ==
  IF k > Len(ts) THEN <<>>
  ELSE (IF ts[k].status = "open" THEN <<ts[k].id>> ELSE <<>>) \o openIds(ts, k + 1)

\* closeAllTrades(finalOutcome)
closeAllTrades(finalOutcome) ==
  LET st == closeLoop([trades |-> trades, capital |-> currentCapital],
                      openIds(trades, 1), 1, finalOutcome)
  IN /\ trades' = st.trades
     /\ currentCapital' = st.capital
     /\ call' = [op |-> "closeAllTrades", finalOutcome |-> finalOutcome,
                 ret |-> None]
     /\ UNCHANGED <<startingCapital, tradeIdCounter>>

\* reset(newCapital?): arg is None or Some(capital).
reset(arg) ==
  /\ trades' = <<>>
  /\ tradeIdCounter' = 0
  /\ startingCapital' = (IF arg # None THEN arg[1] ELSE startingCapital)
  /\ currentCapital' = startingCapital'
  /\ call' = [op |-> "reset", ret |-> None]

\* reduce((sum, x) => sum + x, 0) over a sequence of numbers.
RECURSIVE reduceSum(_)
reduceSum(xs) == IF xs = <<>> THEN 0 ELSE Head(xs) + reduceSum(Tail(xs))

pnlsOf(ts) == [i \in 1..Len(ts) |-> ts[i].pnl[1]]

\* getMetrics with totalTrades taken from the whole trade list.
getMetrics_countsOpen(ts, starting, current) ==
  LET closedTrades == SelectSeq(ts, LAMBDA t : t.status = "closed")
      wins == SelectSeq(closedTrades, LAMBDA t : t.pnl[1] > 0)
      losses == SelectSeq(closedTrades, LAMBDA t : t.pnl[1] < 0)
      totalPnL == reduceSum(pnlsOf(closedTrades))
      totalCost == reduceSum([i \in 1..Len(closedTrades) |-> closedTrades[i].cost])
      grossProfit == reduceSum(pnlsOf(wins))
      grossLoss == Abs(reduceSum(pnlsOf(losses)))
  IN [totalTrades |-> Len(ts),
      winningTrades |-> Len(wins),
      losingTrades |-> Len(losses),
      winRate |-> IF Len(closedTrades) > 0 THEN Ratio(Len(wins), Len(closedTrades)) ELSE Ratio(0, 1),
      totalPnL |-> totalPnL,
      totalCost |-> totalCost,
      roi |-> IF totalCost > 0 THEN Ratio(totalPnL * 100, totalCost) ELSE Ratio(0, 1),
      avgWin |-> IF Len(wins) > 0 THEN Ratio(grossProfit, Len(wins)) ELSE Ratio(0, 1),
      avgLoss |-> IF Len(losses) > 0 THEN Ratio(grossLoss, Len(losses)) ELSE Ratio(0, 1),
      largestWi |-> IF Len(wins) > 0 THEN CHOOSE x \in Range(pnlsOf(wins)) : \A y \in Range(pnlsOf(wins)) : x >= y ELSE 0,
      largestLoss |-> IF Len(losses) > 0 THEN CHOOSE x \in Range(pnlsOf(losses)) : \A y \in Range(pnlsOf(losses)) : x <= y ELSE 0,
      sharpeRatio |-> IF Len(closedTrades) = 0 THEN 0 ELSE [returns |-> [i \in 1..Len(closedTrades) |-> Ratio(closedTrades[i].pnl[1] * 100, closedTrades[i].cost)]],
      profitFactor |-> IF grossLoss > 0 THEN Ratio(grossProfit, grossLoss) ELSE Ratio(0, 1),
      startingCapital |-> starting,
      endingCapital |-> current]

\* getMetrics().  Quotients are kept as fractions, 0 being 0/1.  The Sharpe
\* ratio needs a square root; it is a function of the returns of the closed
\* trades alone (lines 158-164) and is represented by that list, and by 0
\* when there is no closed trade.
getMetrics(ts, starting, current) ==
  LET closedTrades == SelectSeq(ts, LAMBDA t : t.status = "closed")
      wins == SelectSeq(closedTrades, LAMBDA t : t.pnl[1] > 0)
      losses == SelectSeq(closedTrades, LAMBDA t : t.pnl[1] < 0)
      totalPnL == reduceSum(pnlsOf(closedTrades))
      totalCost == reduceSum([i \in 1..Len(closedTrades) |-> closedTrades[i].cost])
      grossProfit == reduceSum(pnlsOf(wins))
      grossLoss == Abs(reduceSum(pnlsOf(losses)))
  IN [totalTrades |-> Len(closedTrades),
      winningTrades |-> Len(wins),
      losingTrades |-> Len(losses),
      winRate |-> IF Len(closedTrades) > 0 THEN Ratio(Len(wins), Len(closedTrades)) ELSE Ratio(0, 1),
      totalPnL |-> totalPnL,
      totalCost |-> totalCost,
      roi |-> IF totalCost > 0 THEN Ratio(totalPnL * 100, totalCost) ELSE Ratio(0, 1),
      avgWin |-> IF Len(wins) > 0 THEN Ratio(grossProfit, Len(wins)) ELSE Ratio(0, 1),
      avgLoss |-> IF Len(losses) > 0 THEN Ratio(grossLoss, Len(losses)) ELSE Ratio(0, 1),
      largestWi |-> IF Len(wins) > 0 THEN CHOOSE x \in Range(pnlsOf(wins)) : \A y \in Range(pnlsOf(wins)) : x >= y ELSE 0,
      largestLoss |-> IF Len(losses) > 0 THEN CHOOSE x \in Range(pnlsOf(losses)) : \A y \in Range(pnlsOf(losses)) : x <= y ELSE 0,
      sharpeRatio |-> IF Len(closedTrades) = 0 THEN 0 ELSE [returns |-> [i \in 1..Len(closedTrades) |-> Ratio(closedTrades[i].pnl[1] * 100, closedTrades[i].cost)]],
      profitFactor |-> IF grossLoss > 0 THEN Ratio(grossProfit, grossLoss) ELSE Ratio(0, 1),
      startingCapital |-> starting,
      endingCapital |-> current]

ExecuteTrade ==
  /\ Len(trades) < MaxTrades
  /\ \E o \in Outcomes, p \in EntryPrices, s \in Sizes :
       executeTrade("m1", o, p, s)

CloseTrade ==
  \E id \in 1..(MaxTrades + 1), x \in ExitPrices, r \in Reasons :
    closeTrade(id, x, r)

CloseAllTrades == \E o \in Outcomes : closeAllTrades(o)

Reset == \E a \in {None} \cup {Some(c) : c \in Capitals} : reset(a)

GetMetrics ==
  /\ call' = [op |-> "getMetrics", ret |-> Some(getMetrics(trades, startingCapital, currentCapital))]
  /\ UNCHANGED <<trades, startingCapital, currentCapital, tradeIdCounter>>

\* No client object exists.
NoClients == /\ clients = <<>> /\ wanted = {} /\ crashed = FALSE

\* The agent and its tracker after construction.  streamHandlers is the
\* number of listeners that setupWebSocketHandlers has registered on the
\* stream client for each of its events.
newAgent ==
  [running |-> FALSE, checkInterval |-> FALSE, startPc |-> "idle",
   awaitSlot |-> 0, currentMarketEndTime |-> None,
   cycles |-> [orderbooks |-> 0, market |-> 0],
   settled |-> {}, streamHandlers |-> 0]

newTracker == [currentMarket |-> None, callbacks |-> FALSE]

\* No agent exists.
NoAgent == /\ agent = newAgent /\ tracker = newTracker /\ now = 1

NoFrames == /\ inbox = <<>> /\ frame = None

\* The statistics of a new agent, the counters used here.
newStats ==
  [cyclesCompleted |-> 0, signalsGenerated |-> 0, tradesExecuted |-> 0, errors |-> 0]

NoLoop == /\ stats = newStats /\ cycle = None

NoSizing == sizing = None

\* A tracker as constructed.
newBTCTracker ==
  [currentMarket |-> None, marketState |-> None, updateCallbacks |-> <<>>,
   tradeHistory |-> <<>>, invoked |-> <<>>]

NoTracker == /\ btcTracker = newBTCTracker /\ clock = 0 /\ trackerCall = None

\* No authoritative feed exists.
NoPoll == poll = None

\* The ledger on its own, driven by an arbitrary caller.
LedgerInit ==
  /\ \E c \in Capitals : newPaperTrader(c)
  /\ sIn = None /\ sOut = None
  /\ NoClients /\ NoAgent /\ NoFrames /\ NoLoop /\ NoSizing /\ NoTracker
  /\ NoPoll

LedgerNext ==
  /\ ExecuteTrade \/ CloseTrade \/ CloseAllTrades \/ Reset \/ GetMetrics
  /\ UNCHANGED <<strategyVars, streamVars, agentVars, frameVars, loopVars, sizingVars, trackerVars, pollVars>>

SpecLedger == LedgerInit /\ [][LedgerNext]_vars

(***************************************************************************)
(* BTCUpdownStrategy (strategy.ts).                                        *)
(*                                                                         *)
(* Scores and confidences of the six sub-signals are counted in units of   *)
(* 1/Unit, window changes of the feeds in units of 1/PctScale percent,     *)
(* weights in thousandths, the composite score in units of 1/WUnit and the *)
(* composite confidence in units of 1/CUnit.  With minutes-to-expiry a     *)
(* whole number and the inputs below every division is exact, so the       *)
(* operators compute the values of the code's expressions.                 *)
(***************************************************************************)
Unit == 20000
PctScale == 10000
WUnit == 1000 * Unit
CUnit == 15 * WUnit

Min(a, b) == IF a <= b THEN a ELSE b
Max(a, b) == IF a >= b THEN a ELSE b

\* The decimal n/d as a score or confidence.
Dec(n, d) == (n * Unit) \div d
\* (a window change of p units) x k, as a score or confidence.
PctTimes(p, k) == p * k * (Unit \div PctScale)
\* An outcome price in hundredths, as a score or confidence.
PriceU(pr) == pr * (Unit \div 100)

\* DEFAULT_STRATEGY_CONFIG: weights in thousandths, thresholds in hundredths.
config ==
  [weights |-> [timeDecay |-> 350, orderbookImbalance |-> 180,
                tradeMomentum |-> 130, btcPriceMovement |-> 180,
                priceInefficiency |-> 80, feedComparison |-> 80],
   minConfidenceToTrade |-> 30,
   minScoreToTrade |-> 15,
   timeDecayActivationMinutes |-> 8,
   kellyFraction |-> 25]

Score(s, c, r) == [score |-> s, confidence |-> c, reason |-> r]

\* A feed as the strategy sees it: kind, isConnected(), getWindowChange()
\* (None, or Some(percent)) and the sign of getRecentMomentum().
\* BinanceBTCFeed.predictOutcome / ChainlinkBTCFeed.predictOutcome
predictOutcome(feed) ==
  IF feed.change = None
  THEN [direction |-> "NEUTRAL", confidence |-> 0]
  ELSE LET pct == feed.change[1]
           a == Abs(pct)
           dir == IF pct > 0 THEN "UP" ELSE "DOWN"
       IN IF feed.kind = "binance"
          THEN IF a < PctScale \div 100
               THEN [direction |-> "NEUTRAL", confidence |-> Dec(1, 10)]
               ELSE LET c0 == Min(PctTimes(a, 20), Dec(95, 100))
                        agree == \/ (dir = "UP" /\ feed.momentum > 0)
                                 \/ (dir = "DOWN" /\ feed.momentum < 0)
                    IN [direction |-> dir,
                        confidence |-> IF agree
                                       THEN Min(c0 + Dec(1, 10), Dec(95, 100))
                                       ELSE c0]
          ELSE IF a < PctScale \div 200
               THEN [direction |-> "NEUTRAL", confidence |-> Dec(1, 10)]
               ELSE [direction |-> dir,
                     confidence |-> Min(PctTimes(a, 50), Dec(98, 100))]

\* analyzeTimeDecay that returns score 0 where the market has priced the move in.
analyzeTimeDecay_zeroed(state, minutes, btcFeed) ==
  LET act == config.timeDecayActivationMinutes IN
  IF minutes > act THEN Score(0, Dec(1, 10), "time decay not active")
  ELSE IF btcFeed = None THEN Score(0, Dec(1, 10), "no feed")
  ELSE LET prediction == predictOutcome(btcFeed[1]) IN
    IF prediction.direction = "NEUTRAL" THEN Score(0, Dec(2, 10), "too close to call")
    ELSE
      LET factor == IF minutes <= 0 THEN 10 * act ELSE 6 * act + 4 * (act - minutes)
          score == IF prediction.direction = "UP" THEN 1 ELSE -1
          confidence == Min(Dec(95, 100),
                            (prediction.confidence * factor) \div (10 * act))
          impliedProb == IF prediction.direction = "UP"
                         THEN state.currentPrice.yes ELSE state.currentPrice.no
          edge == IF impliedProb = NaN THEN NaN
                  ELSE confidence - PriceU(impliedProb)
      IN IF edge # NaN /\ edge < Dec(5, 100)
         THEN Score(0, Dec(3, 10), "already priced")
         ELSE Score(IF edge = NaN THEN NaN ELSE score * Min(Unit, edge * 5),
                    confidence, "time decay")

\* analyzeTimeDecay(state, timeToExpiryMs, btcFeed); minutes = timeToExpiryMs/60000
analyzeTimeDecay(state, minutes, btcFeed) ==
  LET act == config.timeDecayActivationMinutes IN
  IF minutes > act THEN Score(0, Dec(1, 10), "time decay not active")
  ELSE IF btcFeed = None THEN Score(0, Dec(1, 10), "no feed")
  ELSE LET prediction == predictOutcome(btcFeed[1]) IN
    IF prediction.direction = "NEUTRAL" THEN Score(0, Dec(2, 10), "too close to call")
    ELSE
      LET \* 0.6 + 0.4 * min(1, (act - minutes)/act), over 10 * act
          factor == IF minutes <= 0 THEN 10 * act ELSE 6 * act + 4 * (act - minutes)
          score == IF prediction.direction = "UP" THEN 1 ELSE -1
          confidence == Min(Dec(95, 100),
                            (prediction.confidence * factor) \div (10 * act))
          impliedProb == IF prediction.direction = "UP"
                         THEN state.currentPrice.yes ELSE state.currentPrice.no
          edge == IF impliedProb = NaN THEN NaN
                  ELSE confidence - PriceU(impliedProb)
      IN IF edge # NaN /\ edge < Dec(5, 100)
         THEN Score(score * Dec(3, 10), Dec(3, 10), "already priced")
         ELSE Score(IF edge = NaN THEN NaN ELSE score * Min(Unit, edge * 5),
                    confidence, "time decay")

\* analyzeOrderbook(analysis): analysis is None or Some(OrderbookDepth), with
\* imbalance in units of 1/Unit, depths in whole units and spreads in hundredths.
analyzeOrderbook(analysis) ==
  IF analysis = None THEN Score(0, Dec(1, 10), "no orderbook")
  ELSE LET a == analysis[1]
           absImbalance == Abs(a.imbalance)
           totalDepth == a.yesBidDepth + a.noBidDepth
           c0 == Min(Dec(7, 10), Dec(3, 10) + absImbalance \div 2)
           c1 == IF totalDepth > 10000 THEN c0 + Dec(1, 10) ELSE c0
           \* avgSpread < 0.02 with avgSpread = (yesSpread + noSpread) / 2
           c2 == IF a.yesSpread + a.noSpread < 4 THEN c1 + Dec(1, 10) ELSE c1
       IN IF absImbalance < Dec(1, 10) THEN Score(0, Dec(2, 10), "balanced")
          ELSE Score(a.imbalance, Min(Dec(8, 10), c2), "imbalance")

\* analyzeTradeMomentum(momentum): yesRatio in hundredths, totalVolume in whole
\* units.
analyzeTradeMomentum(momentum) ==
  LET score == (momentum.yesRatio - 50) * 2 * (Unit \div 100)
      absScore == Abs(score)
      c0 == Dec(3, 10) + (absScore * 3) \div 10
      c1 == IF momentum.totalVolume > 1000 THEN c0 + Dec(1, 10) ELSE c0
      c2 == IF momentum.tradeCount > 20 THEN c1 + Dec(1, 10) ELSE c1
  IN IF momentum.tradeCount < 5 THEN Score(0, Dec(1, 10), "insufficient trades")
     ELSE IF absScore < Dec(2, 10) THEN Score(0, Dec(2, 10), "flow balanced")
     ELSE Score(score, Min(Dec(7, 10), c2), "momentum")

\* analyzeBTCMovement(btcFeed)
analyzeBTCMovement(btcFeed) ==
  IF btcFeed = None \/ ~btcFeed[1].connected THEN Score(0, Dec(1, 10), "no feed")
  ELSE IF btcFeed[1].change = None THEN Score(0, Dec(1, 10), "no window data")
  ELSE LET percent == btcFeed[1].change[1]
           absChange == Abs(percent)
           momentum == btcFeed[1].momentum
           score == Max(-Unit, Min(Unit, PctTimes(percent, 50)))
           c0 == Min(Dec(8, 10), Dec(3, 10) + PctTimes(absChange, 20))
           c1 == IF (percent > 0 /\ momentum > 0) \/ (percent < 0 /\ momentum < 0)
                 THEN Min(Dec(9, 10), c0 + Dec(1, 10)) ELSE c0
       IN IF absChange < PctScale \div 100 THEN Score(0, Dec(2, 10), "noise")
          ELSE Score(score, c1, "btc move")

\* analyzePriceInefficiency with the score left as five times the mispricing.
analyzePriceInefficiency_unclamped(state, btcFeed) ==
  IF btcFeed = None \/ ~btcFeed[1].connected THEN Score(0, Dec(1, 10), "no feed")
  ELSE IF btcFeed[1].change = None THEN Score(0, Dec(1, 10), "no window data")
  ELSE LET percent == btcFeed[1].change[1]
           absChange == Abs(percent)
           fairYesProb ==
             IF absChange < PctScale \div 100 THEN Dec(5, 10)
             ELSE IF percent > 0
                  THEN Min(Dec(95, 100), Dec(5, 10) + PctTimes(absChange, 10))
                  ELSE Max(Dec(5, 100), Dec(5, 10) - PctTimes(absChange, 10))
           marketYesProb == state.currentPrice.yes
           mispricing == IF marketYesProb = NaN THEN NaN
                         ELSE fairYesProb - PriceU(marketYesProb)
       IN IF mispricing = NaN THEN Score(NaN, NaN, "mispriced")
          ELSE IF Abs(mispricing) < Dec(5, 100)
          THEN Score(0, Dec(2, 10), "fairly priced")
          ELSE Score(mispricing * 5,
                     Min(Dec(7, 10), Dec(3, 10) + Abs(mispricing) * 2),
                     "mispriced")

\* analyzePriceInefficiency(state, btcFeed)
analyzePriceInefficiency(state, btcFeed) ==
  IF btcFeed = None \/ ~btcFeed[1].connected THEN Score(0, Dec(1, 10), "no feed")
  ELSE IF btcFeed[1].change = None THEN Score(0, Dec(1, 10), "no window data")
  ELSE LET percent == btcFeed[1].change[1]
           absChange == Abs(percent)
           fairYesProb ==
             IF absChange < PctScale \div 100 THEN Dec(5, 10)
             ELSE IF percent > 0
                  THEN Min(Dec(95, 100), Dec(5, 10) + PctTimes(absChange, 10))
                  ELSE Max(Dec(5, 100), Dec(5, 10) - PctTimes(absChange, 10))
           marketYesProb == state.currentPrice.yes
           mispricing == IF marketYesProb = NaN THEN NaN
                         ELSE fairYesProb - PriceU(marketYesProb)
       IN IF mispricing = NaN THEN Score(NaN, NaN, "mispriced")
          ELSE IF Abs(mispricing) < Dec(5, 100)
          THEN Score(0, Dec(2, 10), "fairly priced")
          ELSE Score(Max(-Unit, Min(Unit, mispricing * 5)),
                     Min(Dec(7, 10), Dec(3, 10) + Abs(mispricing) * 2),
                     "mispriced")

\* The sign of a window change: "up", "down" or "flat" (lines 468-479).
direction(percent) ==
  IF percent > 0 THEN "up" ELSE IF percent < 0 THEN "down" ELSE "flat"

\* analyzeFeedComparison with the divergence threshold a hundred times higher.
analyzeFeedComparison_highThreshold(chainlinkFeed, binanceFeed) ==
  IF chainlinkFeed = None \/ ~chainlinkFeed[1].connected
  THEN Score(0, Dec(1, 10), "chainlink unavailable")
  ELSE IF chainlinkFeed[1].change = None
  THEN Score(0, Dec(1, 10), "no chainlink window data")
  ELSE IF binanceFeed = None \/ ~binanceFeed[1].connected
  THEN Score(0, Dec(5, 10), "single feed mode")
  ELSE IF binanceFeed[1].change = None
  THEN Score(0, Dec(3, 10), "no binance window data")
  ELSE LET cl == chainlinkFeed[1].change[1]
           bn == binanceFeed[1].change[1]
           divergenceBps == Abs(cl - bn) * (10000 \div PctScale)
           agreement == direction(cl) = direction(bn)
           leadLag == bn - cl
       IN IF divergenceBps > 500 THEN Score(0, Dec(5, 100), "HIGH DIVERGENCE")
          ELSE IF agreement /\ divergenceBps < 2
          THEN Score(IF direction(cl) = "up" THEN Dec(15, 100)
                     ELSE IF direction(cl) = "down" THEN -Dec(15, 100) ELSE 0,
                     Dec(8, 10), "FEEDS AGREE")
          ELSE IF Abs(leadLag) * (10000 \div PctScale) > 1 /\ agreement
          THEN Score(IF leadLag > 0 THEN Dec(1, 10) ELSE -Dec(1, 10),
                     Dec(6, 10), "binance leads")
          ELSE Score(0, Dec(4, 10), "feeds neutral")

\* analyzeFeedComparison(chainlinkFeed, binanceFeed).  divergenceBps is
\* |chainlink% - binance%| * 10000, which is the difference counted in units of
\* 1/PctScale percent.
analyzeFeedComparison(chainlinkFeed, binanceFeed) ==
  IF chainlinkFeed = None \/ ~chainlinkFeed[1].connected
  THEN Score(0, Dec(1, 10), "chainlink unavailable")
  ELSE IF chainlinkFeed[1].change = None
  THEN Score(0, Dec(1, 10), "no chainlink window data")
  ELSE IF binanceFeed = None \/ ~binanceFeed[1].connected
  THEN Score(0, Dec(5, 10), "single feed mode")
  ELSE IF binanceFeed[1].change = None
  THEN Score(0, Dec(3, 10), "no binance window data")
  ELSE LET cl == chainlinkFeed[1].change[1]
           bn == binanceFeed[1].change[1]
           divergenceBps == Abs(cl - bn) * (10000 \div PctScale)
           agreement == direction(cl) = direction(bn)
           leadLag == bn - cl
       IN IF divergenceBps > 5 THEN Score(0, Dec(5, 100), "HIGH DIVERGENCE")
          ELSE IF agreement /\ divergenceBps < 2
          THEN Score(IF direction(cl) = "up" THEN Dec(15, 100)
                     ELSE IF direction(cl) = "down" THEN -Dec(15, 100) ELSE 0,
                     Dec(8, 10), "FEEDS AGREE")
          \* |leadLag| > 0.0001 percent
          ELSE IF Abs(leadLag) * (10000 \div PctScale) > 1 /\ agreement
          THEN Score(IF leadLag > 0 THEN Dec(1, 10) ELSE -Dec(1, 10),
                     Dec(6, 10), "binance leads")
          ELSE Score(0, Dec(4, 10), "feeds neutral")

\* The dynamic weights with the boost taken from the other weights in quarters.
adjustedWeights_quarters(minutes) ==
  LET w == config.weights
      act == config.timeDecayActivationMinutes
      boost == ((act - minutes) * 200) \div act
      reduction == ((act - minutes) * 50) \div act
  IN IF minutes < act
     THEN [timeDecay |-> w.timeDecay + boost,
           orderbookImbalance |-> w.orderbookImbalance - reduction,
           tradeMomentum |-> w.tradeMomentum - reduction,
           btcPriceMovement |-> w.btcPriceMovement - reduction,
           priceInefficiency |-> w.priceInefficiency - reduction,
           feedComparison |-> w.feedComparison - reduction]
     ELSE w

\* The dynamic weights of calculateComposite (lines 540-559), in thousandths.
adjustedWeights(minutes) ==
  LET w == config.weights
      act == config.timeDecayActivationMinutes
      \* timeBoost * 0.2 and a fifth of it, in thousandths
      boost == ((act - minutes) * 200) \div act
      reduction == ((act - minutes) * 40) \div act
  IN IF minutes < act
     THEN [timeDecay |-> w.timeDecay + boost,
           orderbookImbalance |-> w.orderbookImbalance - reduction,
           tradeMomentum |-> w.tradeMomentum - reduction,
           btcPriceMovement |-> w.btcPriceMovement - reduction,
           priceInefficiency |-> w.priceInefficiency - reduction,
           feedComparison |-> w.feedComparison - reduction]
     ELSE w

\* calculateComposite(...): score in units of 1/WUnit, confidence in units of
\* 1/CUnit (the agreement factor 0.8 + 0.4 * n/6 is (12 + n)/15).
calculateComposite(timeDecay, orderbook, momentum, btcMovement, priceIneff, feedComp, minutes) ==
  LET w == adjustedWeights(minutes)
      scores == <<timeDecay.score, orderbook.score, momentum.score,
                  btcMovement.score, priceIneff.score, feedComp.score>>
      confidences == <<timeDecay.confidence, orderbook.confidence,
                       momentum.confidence, btcMovement.confidence,
                       priceIneff.confidence, feedComp.confidence>>
      weightedScore ==
        IF \E i \in 1..6 : scores[i] = NaN THEN NaN
        ELSE timeDecay.score * w.timeDecay + orderbook.score * w.orderbookImbalance
             + momentum.score * w.tradeMomentum
             + btcMovement.score * w.btcPriceMovement
             + priceIneff.score * w.priceInefficiency
             + feedComp.score * w.feedComparison
      weightedConfidence ==
        IF \E i \in 1..6 : confidences[i] = NaN THEN NaN
        ELSE timeDecay.confidence * w.timeDecay
             + orderbook.confidence * w.orderbookImbalance
             + momentum.confidence * w.tradeMomentum
             + btcMovement.confidence * w.btcPriceMovement
             + priceIneff.confidence * w.priceInefficiency
             + feedComp.confidence * w.feedComparison
      positiveCount ==
        Cardinality({i \in 1..6 : scores[i] # NaN /\ scores[i] > Dec(1, 10)})
      negativeCount ==
        Cardinality({i \in 1..6 : scores[i] # NaN /\ scores[i] < -Dec(1, 10)})
      agree == Max(positiveCount, negativeCount)
  IN Score(weightedScore,
           IF weightedConfidence = NaN THEN NaN
           ELSE Min(95 * (CUnit \div 100), weightedConfidence * (12 + agree)),
           IF weightedScore # NaN /\ weightedScore > 0 THEN "YES" ELSE "NO")

\* analyze(state, tracker, chainlinkFeed, binanceFeed): tracker supplies
\* getTimeToExpiry (minutes), getOrderbookAnalysis and getTradeMomentum.
analyze(in) ==
  LET primaryBTCFeed ==
        IF in.chainlinkFeed # None /\ in.chainlinkFeed[1].connected
        THEN in.chainlinkFeed ELSE in.binanceFeed
      timeDecay == analyzeTimeDecay(in.state, in.minutes, primaryBTCFeed)
      orderbookImbalance == analyzeOrderbook(in.orderbookAnalysis)
      momentum == analyzeTradeMomentum(in.tradeMomentum)
      btcMovement == analyzeBTCMovement(primaryBTCFeed)
      priceInefficiency == analyzePriceInefficiency(in.state, primaryBTCFeed)
      feedComparison == analyzeFeedComparison(in.chainlinkFeed, in.binanceFeed)
  IN [timeDecay |-> timeDecay,
      orderbookImbalance |-> orderbookImbalance,
      tradeMomentum |-> momentum,
      btcPriceMovement |-> btcMovement,
      priceInefficiency |-> priceInefficiency,
      feedComparison |-> feedComparison,
      composite |-> calculateComposite(timeDecay, orderbookImbalance, momentum,
                                       btcMovement, priceInefficiency,
                                       feedComparison, in.minutes)]

\* calculatePositionSize without Math.max(0, ...): a negative Kelly fraction
\* gives a negative size.
calculatePositionSize_unclamped(confidence, price) ==
  LET a == confidence - price * (CUnit \div 100)
      b == ((CUnit \div 10000) \div config.kellyFraction) * (100 - price)
  IN IF confidence = NaN \/ price = NaN THEN NaN
     ELSE Min(10000, (2 * a + b) \div (2 * b))

\* calculatePositionSize(signal, price), in cents, price in hundredths: for
\* 0 < price < 1 the Kelly fraction (p*b - q)/b with b = (1 - price)/price is
\* (p - price)/(1 - price); size = min(100, max(0, kelly * kellyFraction) * 100),
\* rounded to cents with Math.round.  Math.max(0, NaN) is NaN.  At price 0 the
\* odds b are Infinity and the fraction is Infinity/Infinity, NaN; at price 1
\* b is 0 and the fraction is -q/0: -Infinity, or NaN when q is 0.
calculatePositionSize(confidence, price) ==
  LET a == confidence - price * (CUnit \div 100)
      b == ((CUnit \div 10000) \div config.kellyFraction) * (100 - price)
  IN IF confidence = NaN \/ price = NaN THEN NaN
     ELSE IF price = 0 THEN NaN
     ELSE IF price = 100 THEN (IF confidence = CUnit THEN NaN ELSE 0)
     ELSE IF a <= 0 THEN 0 ELSE Min(10000, (2 * a + b) \div (2 * b))

\* generateSignal(state, signals): None, or Some(TradingSignal).
generateSignal(state, signals) ==
  LET composite == signals.composite
      isBullish == composite.score # NaN /\ composite.score > 0
      price == IF isBullish THEN state.currentPrice.yes ELSE state.currentPrice.no
  IN IF /\ composite.confidence # NaN
        /\ composite.confidence < config.minConfidenceToTrade * (CUnit \div 100)
     THEN None
     ELSE IF /\ composite.score # NaN
             /\ Abs(composite.score) < config.minScoreToTrade * (WUnit \div 100)
     THEN None
     ELSE Some([market |-> state.conditionId,
                tokenId |-> IF isBullish THEN state.yesTokenId ELSE state.noTokenId,
                side |-> "BUY",
                outcome |-> IF isBullish THEN "yes" ELSE "no",
                price |-> price,
                size |-> calculatePositionSize(composite.confidence, price),
                confidence |-> composite.confidence])

(***************************************************************************)
(* The strategy on its own: one evaluation (analyze, then generateSignal,  *)
(* as runCycle calls them) of arbitrary inputs.                            *)
(***************************************************************************)
\* The two current prices, in hundredths; NaN where the text last received
\* for that price was no number.
PricePairs == {<<45, 55>>, <<50, 50>>, <<90, 12>>, <<0, 100>>, <<100, 0>>, <<NaN, 55>>, <<45, NaN>>}
MinutesToExpiry == {0, 2, 5, 8, 10}
OrderbookAnalyses ==
  {None,
   Some([imbalance |-> 0, yesBidDepth |-> 100, noBidDepth |-> 100,
         yesSpread |-> 2, noSpread |-> 2]),
   Some([imbalance |-> Dec(4, 10), yesBidDepth |-> 8000, noBidDepth |-> 4000,
         yesSpread |-> 1, noSpread |-> 1]),
   Some([imbalance |-> -Dec(6, 10), yesBidDepth |-> 100, noBidDepth |-> 900,
         yesSpread |-> 5, noSpread |-> 3])}
TradeMomenta ==
  {[yesRatio |-> 50, totalVolume |-> 0, tradeCount |-> 0],
   [yesRatio |-> 80, totalVolume |-> 2000, tradeCount |-> 25],
   [yesRatio |-> 20, totalVolume |-> 500, tradeCount |-> 6]}
Feed(k, c, ch, m) == [kind |-> k, connected |-> c, change |-> ch, momentum |-> m]
ChainlinkFeeds ==
  {None, Some(Feed("chainlink", FALSE, Some(1000), 0)),
   Some(Feed("chainlink", TRUE, None, 0))}
  \cup {Some(Feed("chainlink", TRUE, Some(ch), 0)) : ch \in {-1000, 0, 1000, 5000}}
BinanceFeeds ==
  {None, Some(Feed("binance", FALSE, Some(4000), 1)),
   Some(Feed("binance", TRUE, None, 0))}
  \cup {Some(Feed("binance", TRUE, Some(ch), m)) :
          ch \in {-200, 999, 1003, 1005, 1006, 5000}, m \in {0, 1}}

StrategyInputs ==
  {[state |-> [conditionId |-> "m1", yesTokenId |-> "Y1", noTokenId |-> "N1",
               currentPrice |-> [yes |-> pp[1], no |-> pp[2]]],
    minutes |-> mi, orderbookAnalysis |-> ob, tradeMomentum |-> tm,
    chainlinkFeed |-> cl, binanceFeed |-> bn] :
     pp \in PricePairs, mi \in MinutesToExpiry, ob \in OrderbookAnalyses,
     tm \in TradeMomenta, cl \in ChainlinkFeeds, bn \in BinanceFeeds}

StrategyInit ==
  /\ sIn \in {Some(i) : i \in StrategyInputs}
  /\ sOut = None
  /\ newPaperTrader(0)
  /\ NoClients /\ NoAgent /\ NoFrames /\ NoLoop /\ NoSizing /\ NoTracker
  /\ NoPoll

\* runCycle lines 344-356: analyze, then generateSignal.
Evaluate ==
  /\ sOut = None
  /\ LET signals == analyze(sIn[1]) IN
       sOut' = Some([signals |-> signals,
                     signal |-> generateSignal(sIn[1].state, signals)])
  /\ UNCHANGED <<sIn, ledgerVars, streamVars, agentVars, frameVars, loopVars, sizingVars, trackerVars, pollVars>>

StrategyNext == Evaluate

SpecStrategy == StrategyInit /\ [][StrategyNext]_vars

(***************************************************************************)
(* calculatePositionSize on its own: calls with one price and confidences  *)
(* over the whole of [0, 1].  Confidences are in units of 1/CUnit, prices  *)
(* in hundredths, sizes in cents.                                          *)
(***************************************************************************)
MaxCalls == 2

\* Confidences 0, 0.05, ... 1, and prices from 0.01 to 0.99.
Confidences == {k * (CUnit \div 20) : k \in 0..20}
SizingPrices == {1, 10, 45, 50, 55, 90, 99}

SizingInit ==
  /\ \E price \in SizingPrices : sizing = Some([price |-> price, calls |-> <<>>])
  /\ newPaperTrader(0)
  /\ sIn = None /\ sOut = None
  /\ NoClients /\ NoAgent /\ NoFrames /\ NoLoop /\ NoTracker
  /\ NoPoll

\* One call of calculatePositionSize(signal, price).
Size ==
  \E p \in Confidences :
    /\ Len(sizing[1].calls) < MaxCalls
    /\ sizing' = Some([sizing[1] EXCEPT !.calls =
                        Append(@, [confidence |-> p,
                                   size |-> calculatePositionSize(p, sizing[1].price)])])
    /\ UNCHANGED <<ledgerVars, strategyVars, streamVars, agentVars, frameVars, loopVars, trackerVars, pollVars>>

SizingNext == Size

SpecSizing == SizingInit /\ [][SizingNext]_vars

(***************************************************************************)
(* The streaming clients: PolymarketWSClient (websocket.ts), kind          *)
(* "market", and BinanceBTCFeed (binance-feed.ts), kind "exchange".  The   *)
(* two classes share connect, the open / error / close handlers,           *)
(* attemptReconnect and disconnect; only the market client has             *)
(* subscriptions.                                                          *)
(*                                                                         *)
(* A client object is a record; its sockets live in MaxLive slots.  A slot *)
(* whose socket is CLOSED is free: a closed socket emits no further event, *)
(* so a new socket may take its place.  A socket is a record of its        *)
(* readyState, whether it was closed before the handshake finished (the    *)
(* ws library then emits error before close), and the asset ids the server *)
(* was asked for on it.  The fields emitted, sent and log hold what the    *)
(* last handler or call emitted to listeners, sent on the wire and logged  *)
(* with console.error; windowStart says that the exchange feed has a       *)
(* window baseline (startWindow was called), windowOf in which 15-minute   *)
(* window it was taken.                                                    *)
(***************************************************************************)
MarketMaxReconnectAttempts == 5
ExchangeMaxReconnectAttempts == 10
reconnectDelay == 1000

MaxLive == 2

Kinds == {"market", "exchange"}
\* getTokenIds() for market m
tokenIds(m) == {<<"yes", m>>, <<"no", m>>}

TokenSets == {tokenIds(1), tokenIds(2)}
Slots == 1..MaxLive

maxReconnectAttempts(kind) ==
  IF kind = "market" THEN MarketMaxReconnectAttempts
  ELSE ExchangeMaxReconnectAttempts

RECURSIVE Pow2(_)
Pow2(n) == IF n <= 0 THEN 1 ELSE 2 * Pow2(n - 1)

NoSocket == [readyState |-> "CLOSED", aborted |-> FALSE, assets |-> {}]
NewSocket == [readyState |-> "CONNECTING", aborted |-> FALSE, assets |-> {}]

Event(name, cause) == [name |-> name, cause |-> cause]

\* A client after construction; listening: the caller registered an "error"
\* listener on it.  unsettled: a promise returned by connect() has lost the
\* only socket whose open handler resolves it.
newClient(kind, listening) ==
  [kind |-> kind, ws |-> 0, socks |-> [i \in Slots |-> NoSocket],
   reconnectAttempts |-> 0, timers |-> <<>>, pingInterval |-> FALSE,
   subscribedMarkets |-> {}, windowStart |-> FALSE, windowOf |-> 0,
   errorListener |-> listening, unsettled |-> FALSE,
   emitted |-> <<>>, sent |-> <<>>, log |-> <<>>, uncaught |-> FALSE]

\* What a handler or call starts from: nothing emitted, sent or logged yet.
Fresh(cl) == [cl EXCEPT !.emitted = <<>>, !.sent = <<>>, !.log = <<>>]

Live(cl) == {i \in Slots : cl.socks[i].readyState # "CLOSED"}
HasFree(cl) == Live(cl) # Slots
freeSlot(cl) == CHOOSE i \in Slots \ Live(cl) : \A j \in Slots \ Live(cl) : i <= j

emit(cl, e) == [cl EXCEPT !.emitted = Append(@, e)]

\* isConnected()
isConnected(cl) == cl.ws # 0 /\ cl.socks[cl.ws].readyState = "OPEN"

\* subscribe(markets)
subscribeOn(cl, markets) ==
  IF ~ isConnected(cl) THEN cl
  ELSE [cl EXCEPT !.subscribedMarkets = @ \cup markets,
                  !.socks[cl.ws].assets = @ \cup markets,
                  !.sent = Append(@, [type |-> "MARKET", assets_ids |-> markets])]

\* unsubscribe(markets)
unsubscribeOn(cl, markets) ==
  IF ~ isConnected(cl) THEN cl
  ELSE [cl EXCEPT !.subscribedMarkets = @ \ markets,
                  !.socks[cl.ws].assets = @ \ markets,
                  !.sent = Append(@, [type |-> "unsubscribe", assets_ids |-> markets])]

startPing(cl) == [cl EXCEPT !.pingInterval = TRUE]
stopPing(cl) == [cl EXCEPT !.pingInterval = FALSE]

\* attemptReconnect with the delay doubled once too often (base x 2^k for the
\* k-th attempt).
attemptReconnect_doubledOnceMore(cl) ==
  IF cl.reconnectAttempts >= maxReconnectAttempts(cl.kind)
  THEN [cl EXCEPT !.log = Append(@, "Max reconnect attempts reached")]
  ELSE LET n == cl.reconnectAttempts + 1
       IN [cl EXCEPT !.reconnectAttempts = n,
                     !.timers = Append(@, reconnectDelay * Pow2(n))]

\* attemptReconnect(): at the ceiling a console.error and nothing else;
\* below it one more attempt, connect() after reconnectDelay * 2^(attempts-1).
attemptReconnect(cl) ==
  IF cl.reconnectAttempts >= maxReconnectAttempts(cl.kind)
  THEN [cl EXCEPT !.log = Append(@, "Max reconnect attempts reached")]
  ELSE LET n == cl.reconnectAttempts + 1
       IN [cl EXCEPT !.reconnectAttempts = n,
                     !.timers = Append(@, reconnectDelay * Pow2(n - 1))]

\* connect(): a new socket, which becomes this.ws.
connectOn(cl) ==
  LET i == freeSlot(cl)
  IN [cl EXCEPT !.socks[i] = NewSocket, !.ws = i]

\* The open handler without the resubscription.
onOpen_noResubscribe(cl, i) ==
  emit(startPing([cl EXCEPT !.socks[i].readyState = "OPEN",
                            !.reconnectAttempts = 0]),
       Event("connected", ""))

\* The open handler of socket i.
onOpen(cl, i) ==
  LET a == startPing([cl EXCEPT !.socks[i].readyState = "OPEN",
                                !.reconnectAttempts = 0])
      b == IF a.kind = "market" /\ a.subscribedMarkets # {}
           THEN subscribeOn(a, a.subscribedMarkets)
           ELSE a
  IN emit(b, Event("connected", ""))

\* The error handler: emit("error") throws when nobody listens.
onError(cl) ==
  IF cl.errorListener THEN emit(cl, Event("error", "socket"))
  ELSE [cl EXCEPT !.uncaught = TRUE]

\* The promise that connect() returned for socket s is pending: resolve is
\* called by the open handler of s alone (line 44), reject only when creating
\* the socket throws (line 101).
promisePending(s) ==
  s.readyState = "CONNECTING" \/ (s.readyState = "CLOSING" /\ s.aborted)

\* The close handler of socket i.
onClose(cl, i) ==
  attemptReconnect(
    emit(stopPing([cl EXCEPT !.socks[i] = NoSocket,
                             !.unsettled = @ \/ promisePending(cl.socks[i])]),
         Event("disconnected", "")))

\* The ws library emits error, then close, in one turn of the event loop.
onErrorAndClose(cl, i) ==
  LET e == onError(cl)
  IN IF e.uncaught THEN e ELSE onClose(e, i)

\* WebSocket.close()
closeSocket(s) ==
  CASE s.readyState = "CONNECTING" ->
         [s EXCEPT !.readyState = "CLOSING", !.aborted = TRUE]
    [] s.readyState = "OPEN" -> [s EXCEPT !.readyState = "CLOSING"]
    [] OTHER -> s

\* disconnect()
disconnectOn(cl) ==
  LET a == stopPing(cl)
      b == IF a.ws # 0
           THEN [a EXCEPT !.socks[a.ws] = closeSocket(@), !.ws = 0]
           ELSE a
  IN [b EXCEPT !.subscribedMarkets = {}]

(***************************************************************************)
(* One client on its own, driven by an arbitrary caller and an arbitrary   *)
(* network.  The caller keeps at most MaxLive connections in progress      *)
(* (sockets not yet closed plus reconnects not yet made).                  *)
(***************************************************************************)
Put(k, cl) ==
  /\ clients' = [clients EXCEPT ![k] = cl]
  /\ crashed' = cl.uncaught

RemoveAt(seq, j) == SubSeq(seq, 1, j - 1) \o SubSeq(seq, j + 1, Len(seq))

StreamInit ==
  /\ \E k \in Kinds, l \in BOOLEAN : clients = (k :> newClient(k, l))
  /\ wanted = {}
  /\ crashed = FALSE
  /\ newPaperTrader(0)
  /\ sIn = None /\ sOut = None
  /\ NoAgent /\ NoFrames /\ NoLoop /\ NoSizing /\ NoTracker
  /\ NoPoll

\* The caller calls connect().
StreamConnect ==
  \E k \in DOMAIN clients :
    /\ Cardinality(Live(clients[k])) + Len(clients[k].timers) < MaxLive
    /\ Put(k, connectOn(Fresh(clients[k])))
    /\ UNCHANGED wanted

\* The caller calls disconnect().
StreamDisconnect ==
  \E k \in DOMAIN clients :
    /\ Put(k, disconnectOn(Fresh(clients[k])))
    /\ wanted' = {}

\* The caller calls subscribe(m).
StreamSubscribe ==
  \E k \in DOMAIN clients, m \in TokenSets :
    /\ clients[k].kind = "market"
    /\ Put(k, subscribeOn(Fresh(clients[k]), m))
    /\ wanted' = wanted \cup m

\* The caller calls unsubscribe(m).
StreamUnsubscribe ==
  \E k \in DOMAIN clients, m \in TokenSets :
    /\ clients[k].kind = "market"
    /\ Put(k, unsubscribeOn(Fresh(clients[k]), m))
    /\ wanted' = wanted \ m

\* The handshake of socket i succeeds.
SocketOpen ==
  \E k \in DOMAIN clients, i \in Slots :
    /\ clients[k].socks[i].readyState = "CONNECTING"
    /\ Put(k, onOpen(Fresh(clients[k]), i))
    /\ UNCHANGED wanted

\* Socket i fails: the handshake is refused, or the open connection breaks.
SocketFail ==
  \E k \in DOMAIN clients, i \in Slots :
    /\ clients[k].socks[i].readyState \in {"CONNECTING", "OPEN"}
    /\ Put(k, onErrorAndClose(Fresh(clients[k]), i))
    /\ UNCHANGED wanted

\* The peer closes the open socket i.
SocketDrop ==
  \E k \in DOMAIN clients, i \in Slots :
    /\ clients[k].socks[i].readyState = "OPEN"
    /\ Put(k, onClose(Fresh(clients[k]), i))
    /\ UNCHANGED wanted

\* The close that close() asked for on socket i completes.
SocketClosed ==
  \E k \in DOMAIN clients, i \in Slots :
    /\ clients[k].socks[i].readyState = "CLOSING"
    /\ Put(k, IF clients[k].socks[i].aborted
              THEN onErrorAndClose(Fresh(clients[k]), i)
              ELSE onClose(Fresh(clients[k]), i))
    /\ UNCHANGED wanted

\* A reconnect timer set by attemptReconnect fires: connect().
ReconnectTimer ==
  \E k \in DOMAIN clients :
    \E j \in 1..Len(clients[k].timers) :
      /\ HasFree(clients[k])
      /\ Put(k, connectOn([Fresh(clients[k]) EXCEPT !.timers = RemoveAt(@, j)]))
      /\ UNCHANGED wanted

StreamNext ==
  /\ ~ crashed
  /\ \/ StreamConnect \/ StreamDisconnect \/ StreamSubscribe \/ StreamUnsubscribe
     \/ SocketOpen \/ SocketFail \/ SocketDrop \/ SocketClosed \/ ReconnectTimer
  /\ UNCHANGED <<ledgerVars, strategyVars, agentVars, frameVars, loopVars, sizingVars, trackerVars, pollVars>>

SpecStream == StreamInit /\ [][StreamNext]_vars

(***************************************************************************)
(* The message handler of the market stream client (websocket.ts).  A      *)
(* frame is the text received: whether JSON.parse accepts it and the value *)
(* it yields.  A JSON value is a record tagged with its type; an object    *)
(* carries its fields as a function from the field names.  The handler     *)
(* runs inside one try / catch: a run is the client together with whether  *)
(* an exception is on its way to the catch.  The payload of an event is    *)
(* abridged to the token id it names.  Frames in flight are kept in inbox, *)
(* each with the socket slot it was sent on; closing a socket loses the    *)
(* frames still in flight on it.                                           *)
(***************************************************************************)
MaxFrames == 2

JUndefined == [t |-> "undefined"]
JNull == [t |-> "null"]
JNum(n) == [t |-> "number", n |-> n]
JStr(s) == [t |-> "string", s |-> s]
JArr(items) == [t |-> "array", items |-> items]
JObj(fields) == [t |-> "object", fields |-> fields]

\* x.f for a value x that has properties
get(x, f) ==
  IF x.t = "object" /\ f \in DOMAIN x.fields THEN x.fields[f] ELSE JUndefined

\* x.f throws a TypeError
noProps(x) == x.t \in {"null", "undefined"}

truthy(x) ==
  CASE x.t \in {"undefined", "null"} -> FALSE
    [] x.t = "string" -> x.s # ""
    [] x.t = "number" -> x.n # 0
    [] OTHER -> TRUE

\* the token id a payload field names
id(x) == IF x.t = "string" THEN x.s ELSE ""

isStr(x) == x.t = "string"
isNum(x) == x.t = "number"
isSide(x) == x.t = "string" /\ x.s \in {"BUY", "SELL"}
isLevels(x) ==
  /\ x.t = "array"
  /\ \A i \in DOMAIN x.items :
       /\ x.items[i].t = "object"
       /\ isStr(get(x.items[i], "price")) /\ isStr(get(x.items[i], "size"))

PriceSchema(d) ==
  /\ d.t = "object"
  /\ isStr(get(d, "market")) /\ isStr(get(d, "price")) /\ isSide(get(d, "side"))
  /\ isStr(get(d, "size")) /\ isNum(get(d, "timestamp"))

OrderbookSchema(d) ==
  /\ d.t = "object"
  /\ isStr(get(d, "market")) /\ isStr(get(d, "asset_id"))
  /\ isLevels(get(d, "bids")) /\ isLevels(get(d, "asks"))
  /\ isNum(get(d, "timestamp"))

TradeSchema(d) ==
  /\ d.t = "object"
  /\ isStr(get(d, "id")) /\ isStr(get(d, "market")) /\ isStr(get(d, "asset_id"))
  /\ isSide(get(d, "side")) /\ isStr(get(d, "price")) /\ isStr(get(d, "size"))
  /\ isNum(get(d, "timestamp"))

\* WSMessageSchema.safeParse(p).success
WSMessageSchema(p) ==
  /\ p.t = "object"
  /\ LET type == id(get(p, "type"))
     IN CASE type = "price" -> PriceSchema(get(p, "data"))
          [] type = "book" -> OrderbookSchema(get(p, "data"))
          [] type = "trade" -> TradeSchema(get(p, "data"))
          [] type = "error" -> isStr(get(p, "message"))
          [] OTHER -> FALSE

Run(cl) == [cl |-> cl, threw |-> FALSE]
throw(r) == [r EXCEPT !.threw = TRUE]
logIn(r, text) == [r EXCEPT !.cl.log = Append(@, text)]

\* this.emit(e) inside the handler: emit("error") throws when nobody listens,
\* and a listener that throws (failing) throws out of emit.
emitIn(r, e, failing) ==
  IF r.threw THEN r
  ELSE IF e.name = "error" /\ ~ r.cl.errorListener THEN throw(r)
  ELSE [r EXCEPT !.cl = emit(@, e), !.threw = failing]

\* handleEventMessage(data)
handleEventMessage(r, data, failing) ==
  LET type == get(data, "event_type")
      has(f) == truthy(get(data, f))
  IN CASE type = JStr("price_change") ->
            IF has("market") /\ has("price")
            THEN emitIn(r, Event("price", id(get(data, "market"))), failing)
            ELSE r
       [] type = JStr("last_trade_price") ->
            IF has("asset_id") /\ has("price")
            THEN emitIn(r, Event("price", id(get(data, "asset_id"))), failing)
            ELSE r
       [] type = JStr("book") ->
            IF has("asset_id")
            THEN emitIn(r, Event("orderbook", id(get(data, "asset_id"))), failing)
            ELSE r
       [] type = JStr("trade") ->
            IF has("asset_id") /\ has("price") /\ has("size")
            THEN emitIn(r, Event("trade", id(get(data, "asset_id"))), failing)
            ELSE r
       [] OTHER -> logIn(r, "Unhandled event type")

\* One element of price_changes.
handlePriceChange(r, change, failing) ==
  IF noProps(change) THEN throw(r)
  ELSE LET has(f) == truthy(get(change, f))
           a == IF has("asset_id") /\ has("price") /\ has("size") /\ has("side")
                THEN emitIn(r, Event("trade", id(get(change, "asset_id"))), failing)
                ELSE r
       IN IF has("best_bid") \/ has("best_ask")
          THEN emitIn(a, Event("orderbook", id(get(change, "asset_id"))), failing)
          ELSE a

\* handlePriceChanges(data): forEach over data.price_changes, up to a throw.
RECURSIVE handlePriceChanges(_, _, _)
handlePriceChanges(r, changes, failing) ==
  IF changes = <<>> \/ r.threw THEN r
  ELSE handlePriceChanges(handlePriceChange(r, Head(changes), failing),
                          Tail(changes), failing)

\* handleMessage(message), for a message that passed the schema
handleMessage(r, message, failing) ==
  LET type == id(get(message, "type"))
      data == get(message, "data")
  IN CASE type = "price" -> emitIn(r, Event("price", id(get(data, "market"))), failing)
       [] type = "book" -> emitIn(r, Event("orderbook", id(get(data, "asset_id"))), failing)
       [] type = "trade" -> emitIn(r, Event("trade", id(get(data, "asset_id"))), failing)
       [] type = "error" -> emitIn(logIn(r, "Server error"), Event("error", "server"), failing)
       [] OTHER -> r

\* One item of a frame that is an array.
handleItem(r, item, failing) ==
  IF noProps(item) THEN throw(r)
  ELSE IF truthy(get(item, "bids")) /\ truthy(get(item, "asks"))
  THEN emitIn(r, Event("orderbook", id(get(item, "asset_id"))), failing)
  ELSE IF truthy(get(item, "event_type"))
  THEN handleEventMessage(r, item, failing)
  ELSE r

\* parsed.forEach(...), up to a throw
RECURSIVE handleItems(_, _, _)
handleItems(r, items, failing) ==
  IF items = <<>> \/ r.threw THEN r
  ELSE handleItems(handleItem(r, Head(items), failing), Tail(items), failing)

\* The try block with the event_type test ahead of the price_changes test.
dispatch_eventFirst(r, raw, failing) ==
  LET parsed == raw.json
  IN IF ~ raw.valid THEN throw(r)
     ELSE IF parsed.t = "array" THEN handleItems(r, parsed.items, failing)
     ELSE IF noProps(parsed) THEN throw(r)
     ELSE IF truthy(get(parsed, "event_type"))
     THEN handleEventMessage(r, parsed, failing)
     ELSE IF get(parsed, "price_changes").t = "array"
     THEN handlePriceChanges(r, get(parsed, "price_changes").items, failing)
     ELSE IF WSMessageSchema(parsed) THEN handleMessage(r, parsed, failing)
     ELSE logIn(r, "Unknown message format")

\* The body of the try block of the message handler.
dispatch(r, raw, failing) ==
  LET parsed == raw.json
  IN IF ~ raw.valid THEN throw(r)
     ELSE IF parsed.t = "array" THEN handleItems(r, parsed.items, failing)
     ELSE IF noProps(parsed) THEN throw(r)
     ELSE IF get(parsed, "price_changes").t = "array"
     THEN handlePriceChanges(r, get(parsed, "price_changes").items, failing)
     ELSE IF truthy(get(parsed, "event_type"))
     THEN handleEventMessage(r, parsed, failing)
     ELSE IF WSMessageSchema(parsed) THEN handleMessage(r, parsed, failing)
     ELSE logIn(r, "Unknown message format")

\* The message handler without its catch: the exception leaves the handler.
onMessage_noCatch(cl, raw, failing) ==
  LET r == dispatch(Run(cl), raw, failing)
  IN [r.cl EXCEPT !.uncaught = r.threw]

\* The message handler: whatever the try block throws is logged and dropped.
onMessage(cl, raw, failing) ==
  LET r == dispatch(Run(cl), raw, failing)
  IN IF r.threw THEN [r.cl EXCEPT !.log = Append(@, "Failed to parse message")]
     ELSE r.cl

\* ---- the frames the network may deliver ----
Text(json) == [valid |-> TRUE, json |-> json]
NotJSON == [valid |-> FALSE, json |-> JUndefined]

Token == JStr("yes1")
Level == JObj("price" :> JStr("0.52") @@ "size" :> JStr("10"))
Snapshot ==
  JObj("asset_id" :> Token @@ "bids" :> JArr(<<Level>>) @@ "asks" :> JArr(<<Level>>))
PriceData ==
  JObj("market" :> Token @@ "price" :> JStr("0.52") @@ "side" :> JStr("BUY")
       @@ "size" :> JStr("10") @@ "timestamp" :> JNum(1))
Change ==
  JObj("asset_id" :> Token @@ "price" :> JStr("0.52") @@ "size" :> JStr("10")
       @@ "side" :> JStr("BUY") @@ "best_bid" :> JStr("0.51")
       @@ "best_ask" :> JStr("0.53"))
ChangeBest == JObj("asset_id" :> JStr("no1") @@ "best_ask" :> JStr("0.48"))
ChangeTrade ==
  JObj("asset_id" :> JStr("no1") @@ "price" :> JStr("0.47") @@ "size" :> JStr("5")
       @@ "side" :> JStr("SELL"))

MalformedFrames ==
  { NotJSON,
    Text(JNull),
    Text(JObj(<<>>)),
    Text(JArr(<<JNull>>)),
    Text(JArr(<<JObj("event_type" :> JStr("tick_size_change"))>>)),
    Text(Snapshot),
    Text(JObj("type" :> JStr("price"))) }

KnownFrames ==
  { Text(JArr(<<Snapshot>>)),
    Text(JObj("price_changes" :> JArr(<<ChangeBest, Change>>))),
    Text(JObj("event_type" :> JStr("price_change") @@ "market" :> Token
              @@ "price" :> JStr("0.52")
              @@ "price_changes" :> JArr(<<Change, ChangeTrade>>))),
    Text(JObj("event_type" :> JStr("last_trade_price") @@ "asset_id" :> Token
              @@ "price" :> JStr("0.52"))),
    Text(JObj("type" :> JStr("price") @@ "data" :> PriceData)),
    Text(JObj("type" :> JStr("error") @@ "message" :> JStr("bad request"))) }

Frames == MalformedFrames \cup KnownFrames

(***************************************************************************)
(* The market client with frames arriving on its open sockets.             *)
(***************************************************************************)
\* The frames of q still in flight: those on sockets of cl that are not closed.
inFlight(q, cl) ==
  SelectSeq(q, LAMBDA m : cl.socks[m.slot].readyState # "CLOSED")

FramesInit ==
  /\ \E l \in BOOLEAN : clients = ("market" :> newClient("market", l))
  /\ wanted = {}
  /\ crashed = FALSE
  /\ newPaperTrader(0)
  /\ sIn = None /\ sOut = None
  /\ NoAgent /\ NoFrames /\ NoLoop /\ NoSizing /\ NoTracker
  /\ NoPoll

\* The server sends a frame on the open socket i.
FrameArrives ==
  \E i \in Slots, f \in Frames :
    /\ clients.market.socks[i].readyState = "OPEN"
    /\ Len(inbox) < MaxFrames
    /\ inbox' = Append(inbox, [slot |-> i, raw |-> f])
    /\ frame' = None
    /\ Put("market", Fresh(clients.market))
    /\ UNCHANGED wanted

\* The "message" event of the oldest frame in flight; failing: the caller's
\* listeners throw on the events of this frame.
SocketMessage ==
  \E failing \in BOOLEAN :
    /\ inbox # <<>>
    /\ Put("market", onMessage(Fresh(clients.market), Head(inbox).raw, failing))
    /\ inbox' = Tail(inbox)
    /\ frame' = Some(Head(inbox).raw)
    /\ UNCHANGED wanted

\* A step of the connection.
ConnectionStep ==
  /\ \/ StreamConnect \/ StreamDisconnect
     \/ SocketOpen \/ SocketFail \/ SocketDrop \/ SocketClosed \/ ReconnectTimer
  /\ inbox' = inFlight(inbox, clients'.market)
  /\ frame' = None

FramesNext ==
  /\ ~ crashed
  /\ \/ FrameArrives \/ SocketMessage \/ ConnectionStep
  /\ UNCHANGED <<ledgerVars, strategyVars, agentVars, loopVars, sizingVars, trackerVars, pollVars>>

SpecFrames == FramesInit /\ [][FramesNext]_vars

(***************************************************************************)
(* PolymarketAgent (agent.ts) with its tracker (btc-tracker.ts), its two   *)
(* streaming clients, its strategy and its ledger.                         *)
(*                                                                         *)
(* Time is the number of the current 15-minute window; the market of       *)
(* window m is m, and a market is expired once its window is over.  Every  *)
(* await on a network request is a position where the call is suspended:   *)
(* start() at the two connects and at the market detection, runCycle at    *)
(* the market detection (refreshMarket) or at the order-book requests      *)
(* (refreshOrderbooks).  The code between two awaits runs in one step.     *)
(* Prices, order books and trades of the market are not kept: an           *)
(* evaluation reads them from AgentReadings.  Ledger amounts are in units  *)
(* of price x size, 1/10000 dollar, here.                                  *)
(***************************************************************************)
MaxEpoch == 2
MaxInFlight == 2

\* config.maxPositionSize, 100 dollars.
maxPositionSize == 100 * 10000

\* isMarketExpired()
isMarketExpired(tr, t) ==
  IF tr.currentMarket = None THEN TRUE ELSE tr.currentMarket[1] < t

\* The objects a handler works on; the clients start with nothing emitted.
World ==
  [agent |-> agent, tracker |-> tracker,
   market |-> Fresh(clients["market"]),
   exchange |-> Fresh(clients["exchange"])]

Commit(w) ==
  /\ agent' = w.agent
  /\ tracker' = w.tracker
  /\ clients' = [market |-> w.market, exchange |-> w.exchange]
  /\ crashed' = (w.market.uncaught \/ w.exchange.uncaught)

\* The agent's "connected" listener on the market stream client
\* (setupWebSocketHandlers lines 149-155), once it is registered.
onConnected(w) ==
  IF w.market.errorListener /\ w.tracker.currentMarket # None
  THEN [w EXCEPT !.market = subscribeOn(@, tokenIds(w.tracker.currentMarket[1]))]
  ELSE w

\* start() resumes when the socket it awaits opens: after the exchange feed,
\* setupBinanceHandlers and wsClient.connect(); after the market stream,
\* setupWebSocketHandlers and refreshMarket() up to detectCurrentMarket (no
\* market has been settled yet).
startResume(w, k, i) ==
  IF k = "exchange" /\ w.agent.startPc = "awaitFeed" /\ w.agent.awaitSlot = i
  THEN LET m == connectOn(w.market)
       IN [w EXCEPT !.exchange.errorListener = TRUE,
                    !.market = m,
                    !.agent.startPc = "awaitStream",
                    !.agent.awaitSlot = m.ws]
  ELSE IF k = "market" /\ w.agent.startPc = "awaitStream" /\ w.agent.awaitSlot = i
  THEN [w EXCEPT !.market.errorListener = TRUE,
                 !.tracker.callbacks = TRUE,
                 !.agent.streamHandlers = @ + 1,
                 !.agent.startPc = "awaitMarket",
                 !.agent.awaitSlot = 0]
  ELSE w

\* refreshMarket() from the return of detectCurrentMarket (processMarket
\* included) to its end; result is None or the market found.
refreshMarketResume(w, result) ==
  IF result = None THEN w
  ELSE LET w1 == [w EXCEPT !.tracker.currentMarket = result,
                           !.agent.currentMarketEndTime = result]
           w2 == IF isConnected(w1.exchange)
                 THEN [w1 EXCEPT !.exchange.windowStart = TRUE,
                                 !.exchange.windowOf = now]
                 ELSE w1
       IN IF isConnected(w2.market)
          THEN [w2 EXCEPT !.market = subscribeOn(@, tokenIds(result[1]))]
          ELSE w2

\* settleMarket() has positions to settle.
settles(w) ==
  /\ w.agent.currentMarketEndTime # None
  /\ w.tracker.currentMarket # None
  /\ \E n \in 1..Len(trades) : trades[n].status = "open"

\* The market that settleMarket(), called by refreshMarket, settles: the one
\* the tracker holds, when an end time is stored.  agent.settled collects them.
settledBy(w) ==
  IF w.agent.currentMarketEndTime # None /\ w.tracker.currentMarket # None
  THEN {w.tracker.currentMarket[1]}
  ELSE {}

\* runCycle() with a guard: it returns when another cycle is in flight.
runCycleEnter_guarded(w, t) ==
  IF ~ w.agent.running THEN w
  ELSE IF w.agent.cycles.orderbooks + w.agent.cycles.market > 0 THEN w
  ELSE IF isMarketExpired(w.tracker, t)
  THEN [w EXCEPT !.agent.cycles.market = @ + 1,
                 !.agent.settled = @ \cup settledBy(w)]
  ELSE [w EXCEPT !.agent.cycles.orderbooks = @ + 1]

\* runCycle() up to its first await.
runCycleEnter(w, t) ==
  IF ~ w.agent.running THEN w
  ELSE IF isMarketExpired(w.tracker, t)
  THEN [w EXCEPT !.agent.cycles.market = @ + 1,
                 !.agent.settled = @ \cup settledBy(w)]
  ELSE [w EXCEPT !.agent.cycles.orderbooks = @ + 1]

\* The ledger in the step that enters runCycle from w: an expired market with
\* open positions is settled, closeAllTrades(finalOutcome) and then
\* reset(maxPositionSize), which leaves the ledger of reset.
runCycleLedger(w, t) ==
  IF w.agent.running /\ isMarketExpired(w.tracker, t) /\ settles(w)
  THEN reset(Some(maxPositionSize))
  ELSE UNCHANGED ledgerVars

\* stop()
stopOn(w) ==
  IF ~ w.agent.running THEN w
  ELSE [w EXCEPT !.agent.running = FALSE,
                 !.agent.checkInterval = FALSE,
                 !.market = disconnectOn(@),
                 !.exchange = disconnectOn(@),
                 !.tracker = newTracker]

\* What an evaluation reads from the tracker and the exchange feed: the two
\* prices, the minutes to expiry, the order-book analysis, the trade momentum,
\* the feed's window change and the sign of its recent momentum.
AgentReadings ==
  {[prices |-> <<45, 55>>, minutes |-> 0, orderbookAnalysis |-> None,
    tradeMomentum |-> [yesRatio |-> 20, totalVolume |-> 500, tradeCount |-> 6],
    change |-> -1000, momentum |-> 0],
   [prices |-> <<50, 50>>, minutes |-> 10, orderbookAnalysis |-> None,
    tradeMomentum |-> [yesRatio |-> 50, totalVolume |-> 0, tradeCount |-> 0],
    change |-> 0, momentum |-> 0]}

\* runCycle lines 337-348: the arguments of analyze.  The exchange feed, when
\* connected, is passed in the place of the chainlink feed; there is no
\* fourth argument.
analyzeArgs(w, r) ==
  LET m == w.tracker.currentMarket[1]
  IN [state |-> [conditionId |-> m, yesTokenId |-> <<"yes", m>>,
                 noTokenId |-> <<"no", m>>,
                 currentPrice |-> [yes |-> r.prices[1], no |-> r.prices[2]]],
      minutes |-> r.minutes,
      orderbookAnalysis |-> r.orderbookAnalysis,
      tradeMomentum |-> r.tradeMomentum,
      chainlinkFeed |->
        IF isConnected(w.exchange)
        THEN Some(Feed("binance", TRUE,
                       IF w.exchange.windowStart THEN Some(r.change) ELSE None,
                       r.momentum))
        ELSE None,
      binanceFeed |-> None]

AgentInit ==
  /\ agent = newAgent
  /\ tracker = newTracker
  /\ now = 1
  /\ clients = [market |-> newClient("market", FALSE),
                exchange |-> newClient("exchange", FALSE)]
  /\ wanted = {}
  /\ crashed = FALSE
  /\ newPaperTrader(maxPositionSize)
  /\ sIn = None /\ sOut = None
  /\ NoFrames /\ NoLoop /\ NoSizing /\ NoTracker
  /\ NoPoll

\* start(), up to the await of btcFeed.connect().
Start ==
  /\ agent.startPc = "idle"
  /\ LET w == World
         e == connectOn(w.exchange)
     IN Commit([w EXCEPT !.agent.running = TRUE,
                         !.agent.startPc = "awaitFeed",
                         !.agent.awaitSlot = e.ws,
                         !.exchange = e])
  /\ UNCHANGED <<ledgerVars, now>>

\* stop() on a running agent.
Stop ==
  /\ agent.running
  /\ Commit(stopOn(World))
  /\ UNCHANGED <<ledgerVars, now>>

\* The handshake of socket i of client k succeeds: the open handler, the
\* agent's "connected" listener, and start() if it awaits this socket.
AgentSocketOpen ==
  \E k \in Kinds, i \in Slots :
    /\ clients[k].socks[i].readyState = "CONNECTING"
    /\ LET w == World
           w1 == [w EXCEPT ![k] = onOpen(@, i)]
           w2 == IF k = "market" THEN onConnected(w1) ELSE w1
       IN Commit(startResume(w2, k, i))
    /\ UNCHANGED <<ledgerVars, now>>

AgentSocketFail ==
  \E k \in Kinds, i \in Slots :
    /\ clients[k].socks[i].readyState \in {"CONNECTING", "OPEN"}
    /\ Commit([World EXCEPT ![k] = onErrorAndClose(@, i)])
    /\ UNCHANGED <<ledgerVars, now>>

AgentSocketDrop ==
  \E k \in Kinds, i \in Slots :
    /\ clients[k].socks[i].readyState = "OPEN"
    /\ Commit([World EXCEPT ![k] = onClose(@, i)])
    /\ UNCHANGED <<ledgerVars, now>>

AgentSocketClosed ==
  \E k \in Kinds, i \in Slots :
    /\ clients[k].socks[i].readyState = "CLOSING"
    /\ Commit([World EXCEPT ![k] = IF @.socks[i].aborted
                                   THEN onErrorAndClose(@, i)
                                   ELSE onClose(@, i)])
    /\ UNCHANGED <<ledgerVars, now>>

AgentReconnectTimer ==
  \E k \in Kinds :
    \E j \in 1..Len(clients[k].timers) :
      /\ HasFree(clients[k])
      /\ Commit([World EXCEPT ![k] = connectOn([@ EXCEPT !.timers = RemoveAt(@, j)])])
      /\ UNCHANGED <<ledgerVars, now>>

\* The market detection that start() awaits returns: the rest of
\* refreshMarket, then startPeriodicChecks, which sets the interval and calls
\* runCycle.
StartDetectDone ==
  /\ agent.startPc = "awaitMarket"
  /\ \E result \in {None, Some(now)} :
       LET w1 == refreshMarketResume(World, result)
           w2 == [w1 EXCEPT !.agent.checkInterval = TRUE, !.agent.startPc = "done"]
       IN /\ Commit(runCycleEnter(w2, now))
          /\ runCycleLedger(w2, now)
  /\ UNCHANGED now

\* The interval timer fires: runCycle up to its first await.
IntervalTick ==
  /\ agent.checkInterval
  /\ agent.cycles.orderbooks + agent.cycles.market < MaxInFlight
  /\ Commit(runCycleEnter(World, now))
  /\ runCycleLedger(World, now)
  /\ UNCHANGED now

\* The market detection that a cycle awaits returns: the rest of refreshMarket.
CycleDetectDone ==
  /\ agent.cycles.market > 0
  /\ \E result \in {None, Some(now)} :
       Commit(refreshMarketResume([World EXCEPT !.agent.cycles.market = @ - 1],
                                  result))
  /\ UNCHANGED <<ledgerVars, now>>

\* The order-book requests that a cycle awaits return: the rest of runCycle,
\* getState, analyze, generateSignal and executeTrade.
CycleOrderbooksDone ==
  /\ agent.cycles.orderbooks > 0
  /\ LET w == [World EXCEPT !.agent.cycles.orderbooks = @ - 1]
     IN /\ Commit(w)
        /\ IF w.tracker.currentMarket = None
           THEN UNCHANGED ledgerVars
           ELSE \E r \in AgentReadings :
                  LET in == analyzeArgs(w, r)
                      signal == generateSignal(in.state, analyze(in))
                  IN IF signal = None
                     THEN UNCHANGED ledgerVars
                     ELSE /\ Len(trades) < MaxTrades
                          /\ executeTrade(signal[1].market, signal[1].outcome, signal[1].price,
                                          signal[1].size)
  /\ UNCHANGED now

\* The current 15-minute window ends.
WindowEnds ==
  /\ now < MaxEpoch
  /\ now' = now + 1
  /\ UNCHANGED <<agent, tracker, streamVars, ledgerVars>>

AgentNext ==
  /\ ~ crashed
  /\ \/ Start \/ Stop
     \/ AgentSocketOpen \/ AgentSocketFail \/ AgentSocketDrop
     \/ AgentSocketClosed \/ AgentReconnectTimer
     \/ StartDetectDone \/ IntervalTick \/ CycleDetectDone
     \/ CycleOrderbooksDone \/ WindowEnds
  /\ UNCHANGED <<strategyVars, wanted, frameVars, loopVars, sizingVars, trackerVars, pollVars>>

SpecAgent == AgentInit /\ [][AgentNext]_vars

(***************************************************************************)
(* The evaluation loop with its statistics and its faults: the agent on    *)
(* connections that stay up, with any phase of a cycle free to throw.  A   *)
(* phase that throws does so before it has changed anything; what ran      *)
(* before it in the cycle stays.  cycle tells what the runCycle step just  *)
(* taken came to: the phase it ended in, whether that phase threw, and     *)
(* whether executeTrade rejected the trade.                                *)
(***************************************************************************)
MaxCycles == 3

\* Ledger capitals (config.maxPositionSize): 100 dollars and 1 dollar.
LoopCapitals == {maxPositionSize, 10000}

Outcome(phase, thrown, rejected) ==
  Some([phase |-> phase, thrown |-> thrown, rejected |-> rejected])

\* The catch block of runCycle that does not count the error.
cycleError_uncounted(st) == st

\* The catch block of runCycle: console.error and stats.errors++.
cycleError(st) == [st EXCEPT !.errors = @ + 1]

\* settleMarket() in the step that enters runCycle from w; the ledger is
\* reset to config.maxPositionSize, the capital it was constructed with.
settleLedger(w, t) ==
  IF w.agent.running /\ isMarketExpired(w.tracker, t) /\ settles(w)
  THEN reset(Some(startingCapital))
  ELSE UNCHANGED ledgerVars

\* runCycle() from its call to its first await; thrown: the market refresh
\* throws before the detection request is made.
CycleEnter(w, thrown) ==
  IF ~ w.agent.running
  THEN /\ ~ thrown
       /\ Commit(w)
       /\ UNCHANGED <<ledgerVars, stats>>
       /\ cycle' = None
  ELSE IF thrown
  THEN /\ isMarketExpired(w.tracker, now)
       /\ Commit(w)
       /\ UNCHANGED ledgerVars
       /\ stats' = cycleError([stats EXCEPT !.cyclesCompleted = @ + 1])
       /\ cycle' = Outcome("refresh", TRUE, FALSE)
  ELSE /\ Commit(runCycleEnter(w, now))
       /\ settleLedger(w, now)
       /\ stats' = [stats EXCEPT !.cyclesCompleted = @ + 1]
       /\ cycle' = Outcome("enter", FALSE, FALSE)

LoopInit ==
  /\ agent = newAgent
  /\ tracker = newTracker
  /\ now = 1
  /\ clients = [market |-> newClient("market", FALSE),
                exchange |-> newClient("exchange", FALSE)]
  /\ wanted = {}
  /\ crashed = FALSE
  /\ \E c \in LoopCapitals : newPaperTrader(c)
  /\ sIn = None /\ sOut = None
  /\ NoFrames /\ NoLoop /\ NoSizing /\ NoTracker
  /\ NoPoll

\* start(), stop(), a handshake that succeeds, the end of a window.
LoopOther ==
  /\ Start \/ Stop \/ AgentSocketOpen \/ WindowEnds
  /\ UNCHANGED stats
  /\ cycle' = None

\* The market detection that start() awaits returns: the rest of
\* refreshMarket, startPeriodicChecks and its call of runCycle.
LoopStartDetectDone ==
  /\ agent.startPc = "awaitMarket"
  /\ \E result \in {None, Some(now)}, thrown \in BOOLEAN :
       LET w1 == refreshMarketResume(World, result)
           w2 == [w1 EXCEPT !.agent.checkInterval = TRUE, !.agent.startPc = "done"]
       IN CycleEnter(w2, thrown)
  /\ UNCHANGED now

\* The interval timer fires.
LoopTick ==
  /\ agent.checkInterval
  /\ agent.cycles.orderbooks + agent.cycles.market < MaxInFlight
  /\ stats.cyclesCompleted < MaxCycles
  /\ \E thrown \in BOOLEAN : CycleEnter(World, thrown)
  /\ UNCHANGED now

\* The market detection that a cycle awaits returns; thrown: the rest of
\* refreshMarket throws.
LoopDetectDone ==
  /\ agent.cycles.market > 0
  /\ \E result \in {None, Some(now)}, thrown \in BOOLEAN :
       LET w == [World EXCEPT !.agent.cycles.market = @ - 1]
       IN IF thrown
          THEN /\ Commit(w)
               /\ stats' = cycleError(stats)
               /\ cycle' = Outcome("refresh", TRUE, FALSE)
          ELSE /\ Commit(refreshMarketResume(w, result))
               /\ UNCHANGED stats
               /\ cycle' = Outcome("refresh", FALSE, FALSE)
  /\ UNCHANGED <<ledgerVars, now>>

CyclePhases == {"refetch", "scoring", "execution"}

\* The order-book requests that a cycle awaits return; fault: the phase that
\* throws, if any.
LoopOrderbooksDone ==
  /\ agent.cycles.orderbooks > 0
  /\ \E fault \in CyclePhases \cup {"none"}, r \in AgentReadings :
       LET w == [World EXCEPT !.agent.cycles.orderbooks = @ - 1]
           in == analyzeArgs(w, r)
           signal == generateSignal(in.state, analyze(in))
           counted == [stats EXCEPT !.signalsGenerated = @ + 1]
       IN /\ Commit(w)
          /\ IF fault = "refetch"
             THEN /\ UNCHANGED ledgerVars
                  /\ stats' = cycleError(stats)
                  /\ cycle' = Outcome("refetch", TRUE, FALSE)
             ELSE IF w.tracker.currentMarket = None
             THEN /\ fault = "none"
                  /\ UNCHANGED <<ledgerVars, stats>>
                  /\ cycle' = Outcome("refetch", FALSE, FALSE)
             ELSE IF fault = "scoring"
             THEN /\ UNCHANGED ledgerVars
                  /\ stats' = cycleError(stats)
                  /\ cycle' = Outcome("scoring", TRUE, FALSE)
             ELSE IF signal = None
             THEN /\ fault = "none"
                  /\ UNCHANGED <<ledgerVars, stats>>
                  /\ cycle' = Outcome("scoring", FALSE, FALSE)
             ELSE IF fault = "execution"
             THEN /\ UNCHANGED ledgerVars
                  /\ stats' = cycleError(counted)
                  /\ cycle' = Outcome("execution", TRUE, FALSE)
             ELSE /\ Len(trades) < MaxTrades
                  /\ executeTrade(signal[1].market, signal[1].outcome, signal[1].price,
                                  signal[1].size)
                  /\ stats' = [counted EXCEPT !.tradesExecuted =
                                 IF call'.ret # None THEN @ + 1 ELSE @]
                  /\ cycle' = Outcome("execution", FALSE, call'.ret = None)
  /\ UNCHANGED now

LoopNext ==
  /\ ~ crashed
  /\ \/ LoopOther \/ LoopStartDetectDone \/ LoopTick \/ LoopDetectDone
     \/ LoopOrderbooksDone
  /\ UNCHANGED <<strategyVars, wanted, frameVars, sizingVars, trackerVars, pollVars>>

SpecLoop == LoopInit /\ [][LoopNext]_vars

(***************************************************************************)
(* BTCUpdownTracker (btc-tracker.ts) with its data: the current market,    *)
(* MarketState (the two current prices, the two order books, lastUpdate),  *)
(* the update callbacks in the order a Set keeps them, and the trade       *)
(* history.  Prices and sizes arrive as texts and are stored as            *)
(* parseFloat makes them, in hundredths.  invoked lists the callback       *)
(* invocations of the last call, each with the state it was given.         *)
(***************************************************************************)
maxTradeHistory == 100

\* parseFloat(text), in hundredths, for the texts used here.
parseFloat(text) ==
  CASE text = "0" -> 0
    [] text = "0.40" -> 40
    [] text = "0.45" -> 45
    [] text = "0.47" -> 47
    [] text = "0.48" -> 48
    [] text = "0.50" -> 50
    [] text = "0.5" -> 50
    [] text = "0.52" -> 52
    [] text = "0.520" -> 52
    [] text = "0.53" -> 53
    [] text = "0.55" -> 55
    [] text = "0.10" -> 10
    [] text = "0.30" -> 30
    [] text = "10" -> 1000
    [] text = "30" -> 3000
    [] OTHER -> NaN

\* What a call starts from: no callback invoked yet.
Called(tr) == [tr EXCEPT !.invoked = <<>>]

\* processMarket(market, slug) for a well-formed market: the two token ids
\* and the two outcome price texts.
processMarket(tr, market, t) ==
  [tr EXCEPT !.currentMarket = Some([yesTokenId |-> market.yesTokenId,
                                     noTokenId |-> market.noTokenId]),
             !.marketState =
               Some([yesTokenId |-> market.yesTokenId,
                     noTokenId |-> market.noTokenId,
                     currentPrice |-> [yes |-> parseFloat(market.outcomePrices[1]),
                                       no |-> parseFloat(market.outcomePrices[2])],
                     orderbook |-> [yes |-> None, no |-> None],
                     lastUpdate |-> t])]

\* notifyUpdate()
notifyUpdate(tr) ==
  IF tr.marketState = None THEN tr
  ELSE [tr EXCEPT !.invoked =
          @ \o [i \in 1..Len(tr.updateCallbacks) |->
                  [cb |-> tr.updateCallbacks[i], state |-> tr.marketState[1]]]]

\* onUpdate on a list in place of a Set: a callback is added again.
onUpdate_twice(tr, callback) ==
  [tr EXCEPT !.updateCallbacks = Append(@, callback)]

\* onUpdate(callback): Set.add
onUpdate(tr, callback) ==
  IF \E i \in DOMAIN tr.updateCallbacks : tr.updateCallbacks[i] = callback THEN tr
  ELSE [tr EXCEPT !.updateCallbacks = Append(@, callback)]

\* offUpdate(callback): Set.delete
offUpdate(tr, callback) ==
  [tr EXCEPT !.updateCallbacks = SelectSeq(@, LAMBDA c : c # callback)]

\* The two lines that end every update: lastUpdate = new Date(); notifyUpdate().
stamp(tr, t) == notifyUpdate([tr EXCEPT !.marketState[1].lastUpdate = t])

\* updatePrice without the test of the token: every price is the yes price.
updatePrice_anyToken(tr, price, t) ==
  IF tr.marketState = None \/ tr.currentMarket = None THEN tr
  ELSE stamp([tr EXCEPT !.marketState[1].currentPrice.yes = parseFloat(price.price)], t)

\* updatePrice(price)
updatePrice(tr, price, t) ==
  IF tr.marketState = None \/ tr.currentMarket = None THEN tr
  ELSE LET priceValue == parseFloat(price.price)
       IN IF price.market = tr.currentMarket[1].yesTokenId
          THEN stamp([tr EXCEPT !.marketState[1].currentPrice.yes = priceValue], t)
          ELSE IF price.market = tr.currentMarket[1].noTokenId
          THEN stamp([tr EXCEPT !.marketState[1].currentPrice.no = priceValue], t)
          ELSE tr

\* An order-book payload: every field is None when absent; bids and asks are
\* sequences of levels, a level a price text and a size text.
Payload(asset_id, market, bids, asks, best_bid, best_ask, timestamp) ==
  [asset_id |-> asset_id, market |-> market, bids |-> bids, asks |-> asks,
   best_bid |-> best_bid, best_ask |-> best_ask, timestamp |-> timestamp]
Lvl(price, size) == [price |-> price, size |-> size]

\* updateOrderbook, full snapshot (lines 225-256)
applySnapshot(tr, orderbook, t) ==
  LET normalizedBook ==
        [orderbook EXCEPT !.timestamp = IF @ = None THEN Some(t) ELSE @]
      isYes == orderbook.asset_id = Some(tr.currentMarket[1].yesTokenId)
      isNo == orderbook.asset_id = Some(tr.currentMarket[1].noTokenId)
      a == IF isYes THEN [tr EXCEPT !.marketState[1].orderbook.yes = Some(normalizedBook)]
           ELSE IF isNo
           THEN [tr EXCEPT !.marketState[1].orderbook.no = Some(normalizedBook)]
           ELSE tr
      bestAsk == parseFloat(orderbook.asks[1][1].price)
      b == IF Len(orderbook.asks[1]) = 0 THEN a
           ELSE IF isYes THEN [a EXCEPT !.marketState[1].currentPrice.yes = bestAsk]
           ELSE IF isNo THEN [a EXCEPT !.marketState[1].currentPrice.no = bestAsk]
           ELSE a
  IN stamp(b, t)

\* The first level of levels with its price replaced, when there is one.
setTop(levels, price) ==
  IF price = None \/ levels = None \/ Len(levels[1]) = 0 THEN levels
  ELSE Some([levels[1] EXCEPT ![1].price = price[1]])

\* updateOrderbook, best_bid / best_ask (lines 259-308): whatever is not the
\* yes token is taken for the no token.
applyBest(tr, orderbook, t) ==
  LET isYes == orderbook.asset_id = Some(tr.currentMarket[1].yesTokenId)
      side == IF isYes THEN "yes" ELSE "no"
      book == tr.marketState[1].orderbook[side]
      newBook ==
        [asset_id |-> orderbook.asset_id, market |-> orderbook.market,
         bids |-> Some(IF orderbook.best_bid # None
                       THEN <<Lvl(orderbook.best_bid[1], "0")>> ELSE <<>>),
         asks |-> Some(IF orderbook.best_ask # None
                       THEN <<Lvl(orderbook.best_ask[1], "0")>> ELSE <<>>),
         best_bid |-> None, best_ask |-> None,
         timestamp |-> IF orderbook.timestamp = None THEN Some(t)
                       ELSE orderbook.timestamp]
      updated ==
        IF book = None THEN newBook
        ELSE [book[1] EXCEPT !.bids = setTop(@, orderbook.best_bid),
                             !.asks = setTop(@, orderbook.best_ask)]
      a == [tr EXCEPT !.marketState[1].orderbook[side] = Some(updated)]
      b == IF orderbook.best_ask = None THEN a
           ELSE [a EXCEPT !.marketState[1].currentPrice[side] =
                            parseFloat(orderbook.best_ask[1])]
  IN stamp(b, t)

\* updateOrderbook, the typed order book keyed by market (lines 311-328)
applyLegacy(tr, orderbook, t) ==
  LET isYes == orderbook.market = Some(tr.currentMarket[1].yesTokenId)
      isNo == orderbook.market = Some(tr.currentMarket[1].noTokenId)
      side == IF isYes THEN "yes" ELSE "no"
      a == [tr EXCEPT !.marketState[1].orderbook[side] = Some(orderbook)]
      b == IF orderbook.asks # None /\ Len(orderbook.asks[1]) > 0
           THEN [a EXCEPT !.marketState[1].currentPrice[side] =
                            parseFloat(orderbook.asks[1][1].price)]
           ELSE a
  IN stamp(IF isYes \/ isNo THEN b ELSE tr, t)

\* updateOrderbook that takes the first bid of a snapshot for the price.
updateOrderbook_bestBid(tr, orderbook, t) ==
  IF tr.marketState = None \/ tr.currentMarket = None THEN tr
  ELSE IF orderbook.bids # None /\ orderbook.asks # None
  THEN applySnapshot(tr, [orderbook EXCEPT !.asks = orderbook.bids], t)
  ELSE IF orderbook.best_bid # None \/ orderbook.best_ask # None
  THEN applyBest(tr, orderbook, t)
  ELSE applyLegacy(tr, orderbook, t)

\* updateOrderbook(orderbook)
updateOrderbook(tr, orderbook, t) ==
  IF tr.marketState = None \/ tr.currentMarket = None THEN tr
  ELSE IF orderbook.bids # None /\ orderbook.asks # None
  THEN applySnapshot(tr, orderbook, t)
  ELSE IF orderbook.best_bid # None \/ orderbook.best_ask # None
  THEN applyBest(tr, orderbook, t)
  ELSE applyLegacy(tr, orderbook, t)

\* handleTrade that never drops an entry.
handleTrade_unbounded(tr, trade) ==
  IF tr.currentMarket = None THEN tr
  ELSE LET m == tr.currentMarket[1]
           isYes == trade.market = m.yesTokenId \/ trade.asset_id = m.yesTokenId
           isNo == trade.market = m.noTokenId \/ trade.asset_id = m.noTokenId
           tradeRecord ==
             [outcome |-> IF isYes THEN "yes" ELSE "no",
              side |-> trade.side,
              price |-> parseFloat(trade.price),
              size |-> parseFloat(trade.size),
              timestamp |-> trade.timestamp,
              volume |-> times(parseFloat(trade.price), parseFloat(trade.size))]
       IN IF ~ isYes /\ ~ isNo THEN tr
          ELSE [tr EXCEPT !.tradeHistory = Append(@, tradeRecord)]

\* handleTrade(trade)
handleTrade(tr, trade) ==
  IF tr.currentMarket = None THEN tr
  ELSE LET m == tr.currentMarket[1]
           isYes == trade.market = m.yesTokenId \/ trade.asset_id = m.yesTokenId
           isNo == trade.market = m.noTokenId \/ trade.asset_id = m.noTokenId
           tradeRecord ==
             [outcome |-> IF isYes THEN "yes" ELSE "no",
              side |-> trade.side,
              price |-> parseFloat(trade.price),
              size |-> parseFloat(trade.size),
              timestamp |-> trade.timestamp,
              volume |-> times(parseFloat(trade.price), parseFloat(trade.size))]
           pushed == Append(tr.tradeHistory, tradeRecord)
       IN IF ~ isYes /\ ~ isNo THEN tr
          ELSE [tr EXCEPT !.tradeHistory =
                  IF Len(pushed) > maxTradeHistory THEN Tail(pushed) ELSE pushed]

\* clearTradeHistory()
clearTradeHistory(tr) == [tr EXCEPT !.tradeHistory = <<>>]

\* reset()
resetTracker(tr) ==
  [tr EXCEPT !.currentMarket = None, !.marketState = None,
             !.tradeHistory = <<>>, !.updateCallbacks = <<>>]

\* The loop of getTradeMomentum with every trade of the yes outcome counted
\* as a purchase.
RECURSIVE tally_sideIgnored(_, _)
tally_sideIgnored(recentTrades, acc) ==
  IF recentTrades = <<>> THEN acc
  ELSE LET trade == Head(recentTrades)
           toYes == IF trade.outcome = "yes" THEN TRUE ELSE trade.side # "BUY"
       IN tally_sideIgnored(Tail(recentTrades),
            IF toYes THEN [acc EXCEPT !.yesVolume = plus(@, trade.volume)]
            ELSE [acc EXCEPT !.noVolume = plus(@, trade.volume)])

\* The loop of getTradeMomentum (lines 436-446): yesVolume and noVolume.
RECURSIVE tally(_, _)
tally(recentTrades, acc) ==
  IF recentTrades = <<>> THEN acc
  ELSE LET trade == Head(recentTrades)
           toYes == IF trade.outcome = "yes" THEN trade.side = "BUY"
                    ELSE trade.side # "BUY"
       IN tally(Tail(recentTrades),
            IF toYes THEN [acc EXCEPT !.yesVolume = plus(@, trade.volume)]
            ELSE [acc EXCEPT !.noVolume = plus(@, trade.volume)])


\* getTradeMomentum(lookbackMs) at time t
getTradeMomentum(tr, lookbackMs, t) ==
  LET cutoff == t - lookbackMs
      recentTrades == SelectSeq(tr.tradeHistory, LAMBDA x : x.timestamp > cutoff)
      v == tally(recentTrades, [yesVolume |-> 0, noVolume |-> 0])
      totalVolume == plus(v.yesVolume, v.noVolume)
  IN IF Len(recentTrades) = 0
     THEN [yesRatio |-> Ratio(1, 2), totalVolume |-> 0, tradeCount |-> 0]
     ELSE [yesRatio |-> IF totalVolume # NaN /\ totalVolume > 0
                        THEN Ratio(v.yesVolume, totalVolume) ELSE Ratio(1, 2),
           totalVolume |-> totalVolume,
           tradeCount |-> Len(recentTrades)]

\* levels.slice(0, 10)
maxLevels == 10
slice(levels) == SubSeq(levels, 1, Min(maxLevels, Len(levels)))

\* reduce((sum, o) => sum + parseFloat(o.size), 0), in hundredths
RECURSIVE sumSizes(_)
sumSizes(levels) ==
  IF levels = <<>> THEN 0
  ELSE plus(parseFloat(Head(levels).size), sumSizes(Tail(levels)))

\* calculateDepth(book) of getOrderbookAnalysis (lines 471-486), prices and
\* sizes in hundredths; book.bids.slice and book.asks.slice throw a TypeError
\* on a book stored without that array.
calculateDepth(book) ==
  IF book = None
  THEN [threw |-> FALSE, bidDepth |-> 0, askDepth |-> 0, bestBid |-> 0,
        bestAsk |-> 100, spread |-> 100]
  ELSE IF book[1].bids = None \/ book[1].asks = None
  THEN [threw |-> TRUE, bidDepth |-> 0, askDepth |-> 0, bestBid |-> 0,
        bestAsk |-> 0, spread |-> 0]
  ELSE LET topBids == slice(book[1].bids[1])
           topAsks == slice(book[1].asks[1])
           bestBid == IF Len(topBids) > 0 THEN parseFloat(topBids[1].price) ELSE 0
           bestAsk == IF Len(topAsks) > 0 THEN parseFloat(topAsks[1].price) ELSE 100
       IN [threw |-> FALSE, bidDepth |-> sumSizes(topBids),
           askDepth |-> sumSizes(topAsks), bestBid |-> bestBid, bestAsk |-> bestAsk,
           spread |-> plus(bestAsk, times(-1, bestBid))]

\* bidDepth / (bidDepth + askDepth || 1): 0 and NaN are falsy.
bidRatio(depth) ==
  LET total == plus(depth.bidDepth, depth.askDepth)
  IN Ratio(depth.bidDepth, IF total = NaN \/ total = 0 THEN 1 ELSE total)

\* getOrderbookAnalysis(): "null", "throws" (the TypeError of calculateDepth
\* leaves the method) or an OrderbookDepth, its imbalance the difference of
\* the two ratios as one fraction.
getOrderbookAnalysis(tr) ==
  IF tr.marketState = None THEN [kind |-> "null"]
  ELSE LET yesBook == tr.marketState[1].orderbook.yes
           noBook == tr.marketState[1].orderbook.no
           yesDepth == calculateDepth(yesBook)
           noDepth == calculateDepth(noBook)
           yesBidRatio == bidRatio(yesDepth)
           noBidRatio == bidRatio(noDepth)
       IN IF yesBook = None /\ noBook = None THEN [kind |-> "null"]
          ELSE IF yesDepth.threw \/ noDepth.threw THEN [kind |-> "throws"]
          ELSE [kind |-> "analysis",
                yesBidDepth |-> yesDepth.bidDepth, yesAskDepth |-> yesDepth.askDepth,
                noBidDepth |-> noDepth.bidDepth, noAskDepth |-> noDepth.askDepth,
                yesSpread |-> yesDepth.spread, noSpread |-> noDepth.spread,
                imbalance |->
                  IF yesBidRatio.num = NaN \/ noBidRatio.num = NaN THEN Ratio(NaN, 1)
                  ELSE Ratio(yesBidRatio.num * noBidRatio.den
                               - noBidRatio.num * yesBidRatio.den,
                             yesBidRatio.den * noBidRatio.den),
                yesBestBid |-> yesDepth.bestBid, yesBestAsk |-> yesDepth.bestAsk,
                noBestBid |-> noDepth.bestBid, noBestAsk |-> noDepth.bestAsk]

(***************************************************************************)
(* The tracker's market state under an arbitrary caller: a market is       *)
(* processed, price and order-book events arrive for its two tokens and    *)
(* for a token of another market, observers come and go, time passes.      *)
(***************************************************************************)
MaxClock == 1

Market == [yesTokenId |-> "Y1", noTokenId |-> "N1", outcomePrices |-> <<"0.5", "0.5">>]
Foreign == "X9"
Callbacks == {"logUpdate", "watch"}

PriceEvents ==
  {[market |-> "Y1", price |-> "0.52"], [market |-> "Y1", price |-> "0.520"],
   [market |-> "N1", price |-> "0.48"], [market |-> "N1", price |-> "n/a"],
   [market |-> Foreign, price |-> "0.55"]}

BookEvents ==
  {Payload(Some("Y1"), Some("M1"), Some(<<Lvl("0.45", "10")>>),
           Some(<<Lvl("0.53", "10"), Lvl("0.55", "30")>>), None, None, None),
   Payload(Some("N1"), Some("M1"), Some(<<Lvl("0.40", "10")>>),
           Some(<<Lvl("0.47", "30")>>), None, None, Some(1)),
   Payload(Some("Y1"), Some("M1"), Some(<<Lvl("0.45", "10")>>), Some(<<>>),
           None, None, None),
   Payload(Some(Foreign), Some("M9"), Some(<<Lvl("0.45", "10")>>),
           Some(<<Lvl("0.55", "10")>>), None, None, None),
   Payload(Some("Y1"), Some("M1"), None, None, Some("0.50"), Some("0.52"), None),
   Payload(Some("N1"), Some("M1"), None, None, None, Some("0.48"), None),
   Payload(Some(Foreign), Some("M9"), None, None, Some("0.40"), Some("0.45"), None),
   Payload(None, Some("Y1"), None, Some(<<Lvl("0.55", "10")>>), None, None, None),
   Payload(None, Some(Foreign), None, None, None, None, None)}

\* The call is recorded; again says that it repeats the call before it.
TrackerCalled(op, arg) ==
  trackerCall' = Some([op |-> op, arg |-> arg,
                       again |-> /\ trackerCall # None
                                 /\ trackerCall[1].op = op
                                 /\ trackerCall[1].arg = arg])

TrackerProcessMarket ==
  /\ btcTracker' = Called(processMarket(btcTracker, Market, clock))
  /\ TrackerCalled("processMarket", Market)
  /\ UNCHANGED clock

TrackerUpdatePrice ==
  \E price \in PriceEvents :
    /\ btcTracker' = updatePrice(Called(btcTracker), price, clock)
    /\ TrackerCalled("updatePrice", price)
    /\ UNCHANGED clock

TrackerUpdateOrderbook ==
  \E orderbook \in BookEvents :
    /\ btcTracker' = updateOrderbook(Called(btcTracker), orderbook, clock)
    /\ TrackerCalled("updateOrderbook", orderbook)
    /\ UNCHANGED clock

TrackerOnUpdate ==
  \E callback \in Callbacks :
    /\ btcTracker' = onUpdate(Called(btcTracker), callback)
    /\ TrackerCalled("onUpdate", callback)
    /\ UNCHANGED clock

TrackerOffUpdate ==
  \E callback \in Callbacks :
    /\ btcTracker' = offUpdate(Called(btcTracker), callback)
    /\ TrackerCalled("offUpdate", callback)
    /\ UNCHANGED clock

TrackerReset ==
  /\ btcTracker' = resetTracker(Called(btcTracker))
  /\ TrackerCalled("reset", None)
  /\ UNCHANGED clock

\* Time passes between two calls.
ClockTick ==
  /\ clock < MaxClock
  /\ clock' = clock + 1
  /\ UNCHANGED <<btcTracker, trackerCall>>

TrackerInit ==
  /\ NoTracker
  /\ newPaperTrader(0)
  /\ sIn = None /\ sOut = None
  /\ NoClients /\ NoAgent /\ NoFrames /\ NoLoop /\ NoSizing
  /\ NoPoll

TrackerNext ==
  /\ \/ TrackerProcessMarket \/ TrackerUpdatePrice \/ TrackerUpdateOrderbook
     \/ TrackerOnUpdate \/ TrackerOffUpdate \/ TrackerReset \/ ClockTick
  /\ UNCHANGED <<ledgerVars, strategyVars, streamVars, agentVars, frameVars, loopVars, sizingVars, pollVars>>

SpecTracker == TrackerInit /\ [][TrackerNext]_vars

(***************************************************************************)
(* getTradeMomentum on its own: histories as handleTrade builds them from  *)
(* trades of the two outcomes, one per millisecond, and every lookback     *)
(* window from none of the history to all of it.                           *)
(***************************************************************************)
MaxHistory == 3

\* The trades that may arrive at time t.
TradesAt(t) ==
  {[market |-> "M1", asset_id |-> token, side |-> side, price |-> "0.50",
    size |-> size, timestamp |-> t] :
     token \in {"Y1", "N1"}, side \in {"BUY", "SELL"},
     size \in {"0", "0.10", "0.30", "n/a"}}

\* The tracker after the trades of evs have arrived, evs[i] at time i.
RECURSIVE afterTrades(_, _)
afterTrades(tr, evs) ==
  IF evs = <<>> THEN tr
  ELSE handleTrade(afterTrades(tr, SubSeq(evs, 1, Len(evs) - 1)), evs[Len(evs)])

Lookbacks == 0..(MaxHistory + 1)

MomentumInit ==
  /\ \E n \in 0..MaxHistory :
       \E evs \in [1..n -> TradesAt(0)] :
         btcTracker = afterTrades(processMarket(newBTCTracker, Market, 0),
                                  [i \in 1..n |-> [evs[i] EXCEPT !.timestamp = i]])
  /\ clock = MaxHistory
  /\ trackerCall = None
  /\ newPaperTrader(0)
  /\ sIn = None /\ sOut = None
  /\ NoClients /\ NoAgent /\ NoFrames /\ NoLoop /\ NoSizing
  /\ NoPoll

GetTradeMomentum ==
  \E lookbackMs \in Lookbacks :
    /\ trackerCall' = Some([op |-> "getTradeMomentum", arg |-> lookbackMs,
                            again |-> FALSE,
                            ret |-> getTradeMomentum(btcTracker, lookbackMs, clock)])
    /\ UNCHANGED <<btcTracker, clock>>

MomentumNext ==
  /\ GetTradeMomentum
  /\ UNCHANGED <<ledgerVars, strategyVars, streamVars, agentVars, frameVars, loopVars, sizingVars, pollVars>>

SpecMomentum == MomentumInit /\ [][MomentumNext]_vars

(***************************************************************************)
(* The trade history on its own: trades of the current market arrive one   *)
(* per millisecond, more of them than the history keeps, and trades of     *)
(* another market arrive in between.                                       *)
(***************************************************************************)
MaxArrivals == 102

\* The trade of the current market that arrives at time t: the yes token in
\* the market field or the no token in asset_id, purchases and sales in turn.
MarketTradeAt(t) ==
  [market |-> IF t % 2 = 1 THEN "Y1" ELSE "M1",
   asset_id |-> IF t % 2 = 1 THEN "A1" ELSE "N1",
   side |-> IF (t \div 2) % 2 = 0 THEN "BUY" ELSE "SELL",
   price |-> "0.50", size |-> "0.10", timestamp |-> t]

ForeignTradeAt(t) ==
  [market |-> "M9", asset_id |-> Foreign, side |-> "BUY",
   price |-> "0.55", size |-> "0.30", timestamp |-> t]

MarketTradeArrives ==
  /\ clock < MaxArrivals
  /\ clock' = clock + 1
  /\ btcTracker' = handleTrade(Called(btcTracker), MarketTradeAt(clock'))
  /\ TrackerCalled("handleTrade", MarketTradeAt(clock'))

ForeignTradeArrives ==
  /\ btcTracker' = handleTrade(Called(btcTracker), ForeignTradeAt(clock))
  /\ TrackerCalled("handleTrade", ForeignTradeAt(clock))
  /\ UNCHANGED clock

HistoryInit ==
  /\ btcTracker = processMarket(newBTCTracker, Market, 0)
  /\ clock = 0
  /\ trackerCall = None
  /\ newPaperTrader(0)
  /\ sIn = None /\ sOut = None
  /\ NoClients /\ NoAgent /\ NoFrames /\ NoLoop /\ NoSizing
  /\ NoPoll

HistoryNext ==
  /\ MarketTradeArrives \/ ForeignTradeArrives
  /\ UNCHANGED <<ledgerVars, strategyVars, streamVars, agentVars, frameVars, loopVars, sizingVars, pollVars>>

SpecHistory == HistoryInit /\ [][HistoryNext]_vars

(***************************************************************************)
(* Claims about the agent, checked under SpecAgent.                        *)
(***************************************************************************)

\* stop() has been called: start() set running and stop() cleared it.
Stopped == agent.startPc # "idle" /\ ~ agent.running

\* C9: once stop() has been called, both streaming connections are closed or
\* closing and stay so: no socket of either client is connecting or open and
\* no reconnect is pending.
C9_StopIsFinal ==
  Stopped =>
    \A k \in DOMAIN clients :
      /\ clients[k].timers = <<>>
      /\ \A i \in Slots : clients[k].socks[i].readyState \in {"CLOSING", "CLOSED"}

\* C10: once stop() has been called, no step adds a trade to the ledger.
C10_NoTradeAfterStop ==
  [][ Stopped => Len(trades') <= Len(trades) ]_vars

\* C11: once stop() has released the market tracker it stays released: no
\* market detection or order-book refetch that completes after stop() installs
\* a market in the tracker.
C11_TrackerStaysReleased ==
  Stopped => tracker.currentMarket = None

BothFeedsLive(in) ==
  /\ in.chainlinkFeed # None /\ in.chainlinkFeed[1].connected
  /\ in.chainlinkFeed[1].change # None
  /\ in.binanceFeed # None /\ in.binanceFeed[1].connected
  /\ in.binanceFeed[1].change # None

\* C5: whenever both feeds are connected with baselines and their window
\* changes diverge by more than the high-divergence threshold (5 units of
\* 0.0001 percent, the code's "bps"), the evaluation emits no trading signal.
C5_DivergenceVeto ==
  ( /\ sOut # None
    /\ BothFeedsLive(sIn[1])
    /\ Abs(sIn[1].chainlinkFeed[1].change[1] - sIn[1].binanceFeed[1].change[1]) > 5 )
  => sOut[1].signal = None

\* a >= b as JavaScript evaluates it: false when either side is NaN.
Geq(a, b) == a # NaN /\ b # NaN /\ a >= b

\* C14: an evaluation emits a signal if and only if the composite confidence
\* is >= minConfidenceToTrade and |composite score| >= minScoreToTrade; the
\* outcome is yes exactly when the composite score is positive, and the
\* signal's price and token id are those of that outcome.
C14_SignalIffThresholds ==
  sOut # None =>
    LET composite == sOut[1].signals.composite
        signal == sOut[1].signal
        state == sIn[1].state
        absScore == IF composite.score = NaN THEN NaN ELSE Abs(composite.score)
    IN /\ signal # None <=>
            /\ Geq(composite.confidence, config.minConfidenceToTrade * (CUnit \div 100))
            /\ Geq(absScore, config.minScoreToTrade * (WUnit \div 100))
       /\ signal # None =>
            /\ signal[1].outcome = "yes" <=> Geq(composite.score, 1)
            /\ signal[1].outcome = "yes" =>
                 /\ signal[1].price = state.currentPrice.yes
                 /\ signal[1].tokenId = state.yesTokenId
            /\ signal[1].outcome = "no" =>
                 /\ signal[1].price = state.currentPrice.no
                 /\ signal[1].tokenId = state.noTokenId

(***************************************************************************)
(* Claims about the ledger, checked under SpecLedger.                      *)
(***************************************************************************)

\* C1: executeTrade returns none and leaves capital, trade list and id counter
\* unchanged whenever price x size exceeds the current capital; otherwise it
\* appends exactly one trade, with status open, and lowers the capital by
\* exactly that cost.
C1_ExecuteTradeContract ==
  [][ call'.op = "executeTrade" =>
        LET cost == call'.price * call'.size IN
        IF cost > currentCapital
        THEN /\ call'.ret = None
             /\ trades' = trades
             /\ currentCapital' = currentCapital
             /\ tradeIdCounter' = tradeIdCounter
        ELSE /\ call'.ret # None
             /\ Len(trades') = Len(trades) + 1
             /\ SubSeq(trades', 1, Len(trades)) = trades
             /\ trades'[Len(trades')].status = "open"
             /\ trades'[Len(trades')].cost = cost
             /\ call'.ret = Some(trades'[Len(trades')])
             /\ currentCapital' = currentCapital - cost ]_vars

\* C1 witness: a rejected executeTrade (cost above capital) on a ledger that
\* already accepted a trade.
C1_Witness ==
  /\ call.op = "executeTrade"
  /\ call.ret = None
  /\ call.price * call.size > currentCapital
  /\ Len(trades) >= 1

\* C2: a trade goes Open -> Closed only and Closed is terminal: no executeTrade,
\* closeTrade or closeAllTrades call changes a closed trade or reopens one, and
\* closeTrade with an id that is not an open trade's changes no trade and not
\* the capital.
C2_ClosedIsTerminal ==
  [][ call'.op \in {"executeTrade", "closeTrade", "closeAllTrades"} =>
        /\ Len(trades') >= Len(trades)
        /\ \A i \in 1..Len(trades) :
             /\ trades[i].status = "closed" => trades'[i] = trades[i]
             /\ trades'[i].status \in {"open", "closed"}
             /\ trades'[i].status = "open" => trades'[i] = trades[i]
        /\ ( /\ call'.op = "closeTrade"
             /\ ~ \E i \in 1..Len(trades) :
                    trades[i].id = call'.id /\ trades[i].status = "open" )
           => (trades' = trades /\ currentCapital' = currentCapital) ]_vars

\* C2 witness: closeTrade was just called with the id of a trade that is
\* already closed, beside a trade that is still open.
C2_Witness ==
  /\ call.op = "closeTrade"
  /\ \E i \in 1..Len(trades) : trades[i].id = call.id /\ trades[i].status = "closed"
                               /\ trades[i].closeReason = Some("expired")
  /\ \E i \in 1..Len(trades) : trades[i].status = "open"

\* C3: closeAllTrades(finalOutcome) settles every open trade at 1.0 (pnl =
\* size x (1 - entryPrice)) when its outcome is the final outcome and at 0.0
\* (pnl = -cost) otherwise, leaves no trade open and leaves closed trades as
\* they were.
C3_BinarySettlement ==
  [][ call'.op = "closeAllTrades" =>
        /\ Len(trades') = Len(trades)
        /\ \A i \in 1..Len(trades) :
             /\ trades'[i].status = "closed"
             /\ trades[i].status = "closed" => trades'[i] = trades[i]
             /\ trades[i].status = "open" =>
                  /\ trades'[i].id = trades[i].id
                  /\ trades'[i].entryPrice = trades[i].entryPrice
                  /\ trades'[i].size = trades[i].size
                  /\ IF trades[i].outcome = call'.finalOutcome
                     THEN /\ trades'[i].exitPrice = Some(100)
                          /\ trades'[i].pnl =
                               Some(trades[i].size * (100 - trades[i].entryPrice))
                     ELSE /\ trades'[i].exitPrice = Some(0)
                          /\ trades'[i].pnl = Some(-trades[i].cost) ]_vars

\* C3 witness: closeAllTrades("yes") has settled a winning yes trade bought at
\* 0.52 x 10 (pnl 4.80) and a losing no trade in the same call.
C3_Witness ==
  /\ call.op = "closeAllTrades"
  /\ call.finalOutcome = "yes"
  /\ \E i \in 1..Len(trades) :
       /\ trades[i].outcome = "yes" /\ trades[i].entryPrice = 52
       /\ trades[i].size = 10 /\ trades[i].closeReason = Some("expired")
       /\ trades[i].exitPrice = Some(100) /\ trades[i].pnl = Some(480)
  /\ \E i \in 1..Len(trades) :
       /\ trades[i].outcome = "no" /\ trades[i].closeReason = Some("expired")
       /\ trades[i].exitPrice = Some(0)

\* C4: closeTrade on an open trade sets pnl = size x (1 - entryPrice) when
\* exitPrice >= 0.99, pnl = -cost when exitPrice <= 0.01 and pnl =
\* size x (exitPrice - entryPrice) otherwise, and raises the capital by cost + pnl.
C4_CloseTradePnl ==
  [][ call'.op = "closeTrade" =>
        \A i \in 1..Len(trades) :
          (trades[i].id = call'.id /\ trades[i].status = "open") =>
            /\ trades'[i].exitPrice # None
            /\ trades'[i].pnl # None
            /\ LET t == trades[i]
                   x == trades'[i].exitPrice[1]
                   pnl == trades'[i].pnl[1]
               IN /\ x >= 99 => pnl = t.size * (100 - t.entryPrice)
                  /\ x <= 1 => pnl = -t.cost
                  /\ (x > 1 /\ x < 99) => pnl = t.size * (x - t.entryPrice)
                  /\ currentCapital' = currentCapital + t.cost + pnl ]_vars

\* C4 witness: a manual close at exactly 0.99 took the win branch.
C4_Witness ==
  /\ call.op = "closeTrade"
  /\ \E i \in 1..Len(trades) :
       /\ trades[i].id = call.id
       /\ trades[i].closeReason = Some("manual")
       /\ trades[i].exitPrice = Some(99)
       /\ trades[i].pnl = Some(trades[i].size * (100 - trades[i].entryPrice))

\* The closed trades of the ledger and the sum of their pnl.
ClosedAt(ts) == {i \in DOMAIN ts : ts[i].status = "closed"}

RECURSIVE PnlOfClosed(_, _)
PnlOfClosed(ts, k) ==
  IF k > Len(ts) THEN 0
  ELSE (IF ts[k].status = "closed" THEN ts[k].pnl[1] ELSE 0) + PnlOfClosed(ts, k + 1)

\* C34: getMetrics aggregates closed trades only.  totalTrades is the number
\* of closed trades and totalPnL the sum of their pnl; winning and losing
\* trades together are at most totalTrades; apart from endingCapital, which
\* is the current capital, the result is the one of the ledger with its open
\* trades taken out; and with no closed trade every aggregate is 0.
C34_MetricsClosedOnly ==
  (call.op = "getMetrics") =>
    LET metrics == call.ret[1]
        closedOnly == SelectSeq(trades, LAMBDA t : t.status = "closed")
        others == getMetrics(closedOnly, startingCapital, currentCapital)
        Aggregates == DOMAIN metrics \ {"endingCapital"}
    IN /\ metrics.totalTrades = Cardinality(ClosedAt(trades))
       /\ metrics.totalPnL = PnlOfClosed(trades, 1)
       /\ metrics.winningTrades + metrics.losingTrades <= metrics.totalTrades
       /\ metrics.endingCapital = currentCapital
       /\ [field \in Aggregates |-> metrics[field]] = [field \in Aggregates |-> others[field]]
       /\ ClosedAt(trades) = {}
            => /\ metrics.totalTrades = 0 /\ metrics.winningTrades = 0
               /\ metrics.losingTrades = 0 /\ metrics.winRate.num = 0
               /\ metrics.totalPnL = 0 /\ metrics.totalCost = 0
               /\ metrics.roi.num = 0 /\ metrics.avgWin.num = 0
               /\ metrics.avgLoss.num = 0 /\ metrics.largestWi = 0
               /\ metrics.largestLoss = 0 /\ metrics.sharpeRatio = 0
               /\ metrics.profitFactor.num = 0

\* C34 witness: getMetrics on a ledger holding an open trade and one trade
\* closed at its entry price (pnl 0): one trade counted, neither won nor lost.
C34_Witness ==
  /\ call.op = "getMetrics"
  /\ \E i \in DOMAIN trades : trades[i].status = "open"
  /\ \E i \in DOMAIN trades : trades[i].status = "closed" /\ trades[i].pnl = Some(0)
  /\ call.ret[1].totalTrades = 1
  /\ call.ret[1].winningTrades + call.ret[1].losingTrades = 0
  /\ call.ret[1].endingCapital < call.ret[1].startingCapital

(***************************************************************************)
(* Claims about the streaming clients, checked under SpecStream.           *)
(***************************************************************************)

\* A socket of client k opens in this step.
OpenedIn(k) ==
  \E i \in Slots : /\ clients[k].socks[i].readyState = "CONNECTING"
                   /\ clients'[k].socks[i].readyState = "OPEN"

\* A socket of client k closes in this step (its close handler runs).
ClosedIn(k) ==
  \E i \in Slots : /\ clients[k].socks[i].readyState # "CLOSED"
                   /\ clients'[k].socks[i].readyState = "CLOSED"

\* C6: when a connection of the market stream client closes with the attempt
\* counter at its ceiling, no further reconnect is scheduled and the client
\* emits an error event for the exhaustion, that is, one other than the
\* socket's own error passed on by the error handler.
C6_ExhaustionSurfaced ==
  [][ \A k \in DOMAIN clients :
        ( /\ clients[k].kind = "market"
          /\ clients[k].reconnectAttempts >= 5
          /\ ClosedIn(k) )
        => /\ clients'[k].timers = clients[k].timers
           /\ \E n \in 1..Len(clients'[k].emitted) :
                /\ clients'[k].emitted[n].name = "error"
                /\ clients'[k].emitted[n].cause # "socket" ]_vars

\* C38: every call to the market stream client's connect() settles.  No
\* promise returned by connect() is left pending with nothing that can
\* settle it: the socket of a pending connect() is not closed before it has
\* opened, whatever the reconnects do afterwards.
C38_ConnectSettles ==
  \A k \in DOMAIN clients : clients[k].kind = "market" => ~ clients[k].unsettled

\* C7: for both clients, a close below the ceiling (5 market, 10 exchange)
\* makes the counter k one larger and schedules exactly one reconnect with
\* delay 1000 x 2^(k-1); a close at the ceiling schedules nothing; an open
\* resets the counter to 0; nothing else changes the counter; and the counter
\* never exceeds the ceiling.
C7_Backoff ==
  [][ \A k \in DOMAIN clients :
        LET c == clients[k]
            d == clients'[k]
            ceiling == IF c.kind = "market" THEN 5 ELSE 10
        IN /\ d.reconnectAttempts <= ceiling
           /\ OpenedIn(k) => d.reconnectAttempts = 0
           /\ ClosedIn(k) =>
                IF c.reconnectAttempts < ceiling
                THEN /\ d.reconnectAttempts = c.reconnectAttempts + 1
                     /\ d.timers =
                          Append(c.timers, 1000 * 2^(d.reconnectAttempts - 1))
                ELSE /\ d.reconnectAttempts = c.reconnectAttempts
                     /\ d.timers = c.timers
           /\ (~ OpenedIn(k) /\ ~ ClosedIn(k)) =>
                /\ d.reconnectAttempts = c.reconnectAttempts
                /\ Len(d.timers) <= Len(c.timers) ]_vars

\* C7 witness: the exchange feed has failed ten times in a row; its tenth
\* reconnect is pending with delay 1000 x 2^9.
C7_Witness ==
  /\ "exchange" \in DOMAIN clients
  /\ clients["exchange"].reconnectAttempts = 10
  /\ clients["exchange"].timers = <<512000>>
  /\ clients["exchange"].emitted =
       <<Event("error", "socket"), Event("disconnected", "")>>

\* C8 as stated: at every reconnect (an open while the attempt counter is
\* above 0, so after a close) the market stream client sends a subscription
\* request that contains every token the caller subscribed since the last
\* disconnect() and did not unsubscribe.
C8_ResubscribeAllWanted ==
  [][ \A k \in DOMAIN clients :
        ( /\ clients[k].kind = "market"
          /\ clients[k].reconnectAttempts > 0
          /\ OpenedIn(k)
          /\ wanted # {} )
        => \E n \in 1..Len(clients'[k].sent) :
             /\ clients'[k].sent[n].type = "MARKET"
             /\ wanted \subseteq clients'[k].sent[n].assets_ids ]_vars

\* C8 amended: whenever the current connection of the market stream client is
\* open, so after every reconnect and without any action by the caller, every
\* token of its subscription set has been requested on that connection, and a
\* reconnect that makes the opened socket current with a non-empty set sends
\* one request with the whole set; but the set only holds tokens passed to
\* subscribe() while connected: while the client is not connected no call adds
\* a token to the set or sends a request.
C8_ResubscribeAccepted ==
  [][ \A k \in DOMAIN clients :
        LET c == clients[k]
            d == clients'[k]
        IN c.kind = "market" =>
             /\ isConnected(d) => d.subscribedMarkets \subseteq d.socks[d.ws].assets
             /\ ( /\ c.reconnectAttempts > 0 /\ OpenedIn(k) /\ isConnected(d)
                  /\ c.subscribedMarkets # {} )
                => d.sent = <<[type |-> "MARKET", assets_ids |-> c.subscribedMarkets]>>
             /\ (~ isConnected(c) /\ ~ OpenedIn(k)) =>
                  /\ d.subscribedMarkets \subseteq c.subscribedMarkets
                  /\ d.sent = <<>> ]_vars

\* C8 witness: a reconnect has just replayed the subscription set, which lacks
\* a token pair the caller subscribed while the client was reconnecting.
C8_Witness ==
  /\ "market" \in DOMAIN clients
  /\ isConnected(clients["market"])
  /\ clients["market"].emitted = <<Event("connected", "")>>
  /\ clients["market"].sent = <<[type |-> "MARKET", assets_ids |-> tokenIds(1)]>>
  /\ clients["market"].subscribedMarkets = tokenIds(1)
  /\ wanted = tokenIds(1) \cup tokenIds(2)

(***************************************************************************)
(* Claims about the message handler, checked under SpecFrames.             *)
(***************************************************************************)
\* The shapes the client decodes: an order-book snapshot (bids and asks), an
\* event with one of the four known discriminants, a price_changes batch, a
\* message matching the typed schema.
IsSnapshot(x) == x.t = "object" /\ get(x, "bids").t = "array" /\ get(x, "asks").t = "array"
IsEvent(x) == x.t = "object" /\ id(get(x, "event_type")) \in {"price_change", "last_trade_price", "book", "trade"}
IsPriceChanges(x) == x.t = "object" /\ get(x, "price_changes").t = "array"

Recognised(raw) ==
  /\ raw.valid
  /\ IF raw.json.t = "array"
     THEN \E i \in DOMAIN raw.json.items :
            IsSnapshot(raw.json.items[i]) \/ IsEvent(raw.json.items[i])
     ELSE IsPriceChanges(raw.json) \/ IsEvent(raw.json) \/ WSMessageSchema(raw.json)

MarketEvents == {"price", "orderbook", "trade"}

\* The message handler has just run on raw.
Handled(raw) == frame' = Some(raw) /\ inbox' = Tail(inbox)

\* C12: the handler runs on the frames in arrival order, and no exception
\* leaves it; a frame that is not valid JSON or matches no recognised shape
\* emits no price, order-book or trade event and leaves the connection state
\* (sockets, reconnect attempts and timers, ping, subscriptions) as it was,
\* and the frames after it stay in flight.
C12_BadFrameDropped ==
  [][ \A raw \in Frames :
        Handled(raw) =>
          /\ raw = Head(inbox).raw
          /\ ~ clients'.market.uncaught /\ ~ crashed'
          /\ ~ Recognised(raw) =>
               /\ \A j \in DOMAIN clients'.market.emitted :
                    clients'.market.emitted[j].name \notin MarketEvents
               /\ Fresh(clients'.market) = Fresh(clients.market)
               /\ clients'.market.log # <<>> ]_vars

\* A malformed frame has just been dropped, and a recognised frame is behind it.
C12_Witness ==
  /\ frame # None /\ ~ Recognised(frame[1])
  /\ clients.market.log # <<>>
  /\ inbox # <<>> /\ Recognised(Head(inbox).raw)

\* What one element of a delta batch stands for: a trade when it has asset
\* id, price, size and side, then an order-book update when it has a best bid
\* or a best ask.
EventsOf(change) ==
  LET has(f) == truthy(get(change, f))
      token == id(get(change, "asset_id"))
  IN (IF has("asset_id") /\ has("price") /\ has("size") /\ has("side")
      THEN <<Event("trade", token)>> ELSE <<>>)
     \o (IF has("best_bid") \/ has("best_ask")
         THEN <<Event("orderbook", token)>> ELSE <<>>)

\* The events of the elements, in array order.
RECURSIVE BatchEvents(_)
BatchEvents(changes) ==
  IF changes = <<>> THEN <<>>
  ELSE EventsOf(Head(changes)) \o BatchEvents(Tail(changes))

\* The handler logged an exception that its catch took.
Caught(cl) == \E j \in DOMAIN cl.log : cl.log[j] = "Failed to parse message"

C15_KellySize ==
  sizing # None =>
    LET calls == sizing[1].calls
    IN /\ \A i \in DOMAIN calls : calls[i].size >= 0 /\ calls[i].size <= 100 * 100
       /\ \A i, j \in DOMAIN calls :
            calls[i].confidence <= calls[j].confidence => calls[i].size <= calls[j].size

\* Two calls with one price: one whose Kelly fraction is negative, clamped to
\* size 0, and one with a larger confidence and a positive size.
C15_Witness ==
  /\ sizing # None
  /\ \E i, j \in DOMAIN sizing[1].calls :
       /\ sizing[1].calls[i].confidence < sizing[1].price * (CUnit \div 100)
       /\ sizing[1].calls[i].size = 0
       /\ sizing[1].calls[j].confidence > sizing[1].calls[i].confidence
       /\ sizing[1].calls[j].size > 0

(***************************************************************************)
(* Claims about the tracker's market state (SpecTracker).                  *)
(***************************************************************************)
\* The step is a call of op on the tracker.
IsCall(op) ==
  /\ clock' = clock
  /\ trackerCall' # None
  /\ trackerCall'[1].op = op

\* The tracker follows a market: updates are applied.
Following == btcTracker.currentMarket # None /\ btcTracker.marketState # None

TokenOf(side) ==
  IF side = "yes" THEN btcTracker.currentMarket[1].yesTokenId
  ELSE btcTracker.currentMarket[1].noTokenId

OtherSide(side) == IF side = "yes" THEN "no" ELSE "yes"

\* A full snapshot with at least one bid level and one ask level.
FullSnapshot(orderbook) ==
  /\ orderbook.bids # None /\ orderbook.asks # None
  /\ Len(orderbook.bids[1]) >= 1 /\ Len(orderbook.asks[1]) >= 1

\* C16: when updateOrderbook applies a full snapshot with at least one bid
\* level and one ask level for a token of the current market, that outcome's
\* current price afterwards is the price of the snapshot's first ask level,
\* and the other outcome's price and book are as they were.
C16_SnapshotSetsPrice ==
  [][\A side \in {"yes", "no"} :
       (/\ IsCall("updateOrderbook") /\ Following
        /\ FullSnapshot(trackerCall'[1].arg)
        /\ trackerCall'[1].arg.asset_id = Some(TokenOf(side)))
       => LET before == btcTracker.marketState[1]
              after == btcTracker'.marketState[1]
              other == OtherSide(side)
          IN /\ after.currentPrice[side] =
                  parseFloat(trackerCall'[1].arg.asks[1][1].price)
             /\ after.currentPrice[other] = before.currentPrice[other]
             /\ after.orderbook[other] = before.orderbook[other]]_vars

\* A snapshot for the yes token has just set the yes price to its first ask,
\* next to a no price and a no book that earlier events had set.
C16_Witness ==
  /\ trackerCall # None /\ trackerCall[1].op = "updateOrderbook"
  /\ FullSnapshot(trackerCall[1].arg)
  /\ trackerCall[1].arg.asset_id = Some("Y1")
  /\ btcTracker.marketState # None
  /\ btcTracker.marketState[1].currentPrice = [yes |-> 53, no |-> 48]
  /\ btcTracker.marketState[1].orderbook.no # None

\* The two current prices, None without a market state.
Prices(tr) == IF tr.marketState = None THEN None ELSE Some(tr.marketState[1].currentPrice)

\* The token is neither outcome token of the current market.
ForeignToken(token) ==
  \/ btcTracker.currentMarket = None
  \/ /\ token # btcTracker.currentMarket[1].yesTokenId
     /\ token # btcTracker.currentMarket[1].noTokenId

\* C17: a price update applied a second time in a row leaves the two current
\* prices as the first application left them, and a price update for a token
\* that is neither outcome token of the current market changes no price and
\* invokes no observer.
C17_PriceUpdateIdempotent ==
  [][IsCall("updatePrice")
     => /\ trackerCall'[1].again => Prices(btcTracker') = Prices(btcTracker)
        /\ ForeignToken(trackerCall'[1].arg.market)
             => /\ Prices(btcTracker') = Prices(btcTracker)
                /\ btcTracker'.invoked = <<>>]_vars

\* The same price update for the yes token has been applied twice in a row,
\* with an observer registered and the no price set by an earlier event.
C17_Witness ==
  /\ trackerCall # None /\ trackerCall[1].op = "updatePrice"
  /\ trackerCall[1].again
  /\ trackerCall[1].arg = [market |-> "Y1", price |-> "0.52"]
  /\ Prices(btcTracker) = Some([yes |-> 52, no |-> 48])
  /\ Len(btcTracker.invoked) >= 1

\* The token an order-book update is for: its asset_id, and for the
\* legacy shape, which has none, the token in its market field.
UpdateToken(orderbook) ==
  IF orderbook.asset_id # None THEN orderbook.asset_id[1] ELSE orderbook.market[1]

\* The two order books and the two current prices, None without a market state.
BooksAndPrices(tr) ==
  IF tr.marketState = None THEN None
  ELSE Some([orderbook |-> tr.marketState[1].orderbook,
             currentPrice |-> tr.marketState[1].currentPrice])

\* C37: an order-book update of any shape whose token is neither outcome
\* token of the current market leaves both order books and both current
\* prices as they were.
C37_ForeignBookIgnored ==
  [][(IsCall("updateOrderbook") /\ ForeignToken(UpdateToken(trackerCall'[1].arg)))
       => BooksAndPrices(btcTracker') = BooksAndPrices(btcTracker)]_vars

(***************************************************************************)
(* Claims about the trade history (SpecMomentum, SpecHistory).             *)
(***************************************************************************)
\* The sum of the volumes of the trades of history h at the positions in S.
RECURSIVE VolumeOver(_, _)
VolumeOver(h, S) ==
  IF S = {} THEN 0
  ELSE LET i == CHOOSE j \in S : TRUE
       IN h[i].volume + VolumeOver(h, S \ {i})

Bullish(trade) ==
  \/ trade.outcome = "yes" /\ trade.side = "BUY"
  \/ trade.outcome = "no" /\ trade.side = "SELL"

Bearish(trade) ==
  \/ trade.outcome = "yes" /\ trade.side = "SELL"
  \/ trade.outcome = "no" /\ trade.side = "BUY"

\* The positions of the history that are in the window of the last call.
InWindow ==
  {i \in DOMAIN btcTracker.tradeHistory :
     btcTracker.tradeHistory[i].timestamp > clock - trackerCall[1].arg}

\* C18: getTradeMomentum returns a yesRatio in [0, 1]; with the bullish
\* volume (BUY on yes, SELL on no) and the bearish volume (SELL on yes, BUY on
\* no) of the trades in the window, when their sum is a positive number,
\* yesRatio is bullish / (bullish + bearish); yesRatio is 0.5 when no trade is
\* in the window; tradeCount is the number of trades in the window.
C18_MomentumRatio ==
  (trackerCall # None /\ trackerCall[1].op = "getTradeMomentum")
  => LET h == btcTracker.tradeHistory
         ret == trackerCall[1].ret
         r == ret.yesRatio
         numbers == \A i \in InWindow : h[i].volume # NaN
         bullish == VolumeOver(h, {i \in InWindow : Bullish(h[i])})
         bearish == VolumeOver(h, {i \in InWindow : Bearish(h[i])})
     IN /\ r.den > 0 /\ 0 <= r.num /\ r.num <= r.den
        /\ (numbers /\ bullish + bearish > 0)
             => r.num * (bullish + bearish) = bullish * r.den
        /\ InWindow = {} => 2 * r.num = r.den
        /\ ret.tradeCount = Cardinality(InWindow)

\* A call whose window holds two of three trades, one bullish and one
\* bearish with different volumes, and leaves the oldest trade out.
C18_Witness ==
  /\ trackerCall # None /\ trackerCall[1].op = "getTradeMomentum"
  /\ Len(btcTracker.tradeHistory) = 3
  /\ InWindow = {2, 3}
  /\ Bullish(btcTracker.tradeHistory[2]) /\ btcTracker.tradeHistory[2].volume = 500
  /\ Bearish(btcTracker.tradeHistory[3]) /\ btcTracker.tradeHistory[3].volume = 1500
  /\ trackerCall[1].ret.yesRatio = [num |-> 500, den |-> 2000]
  /\ trackerCall[1].ret.tradeCount = 2

\* C19: the trade history is a bounded queue.  It never holds more than 100
\* entries; a trade of the current market is appended, and when the history
\* is full the oldest entry goes and the others keep their order; a trade
\* whose tokens are not tokens of the current market leaves it as it is.
C19_BoundedHistory ==
  /\ [](Len(btcTracker.tradeHistory) <= 100)
  /\ [][(trackerCall' # None /\ trackerCall'[1].op = "handleTrade")
        => LET h == btcTracker.tradeHistory
               after == btcTracker'.tradeHistory
               trade == trackerCall'[1].arg
           IN IF ForeignToken(trade.market) /\ ForeignToken(trade.asset_id)
              THEN after = h
              ELSE /\ after[Len(after)].timestamp = trade.timestamp
                   /\ IF Len(h) = 100
                      THEN /\ Len(after) = 100
                           /\ \A i \in 1..99 : after[i] = h[i + 1]
                      ELSE /\ Len(after) = Len(h) + 1
                           /\ \A i \in 1..Len(h) : after[i] = h[i]]_vars

\* 102 trades of the market have arrived: the history holds the last 100 of
\* them in arrival order, and a trade of another market has just been
\* turned away.
C19_Witness ==
  /\ trackerCall # None /\ trackerCall[1].op = "handleTrade"
  /\ trackerCall[1].arg.asset_id = Foreign
  /\ clock = 102
  /\ Len(btcTracker.tradeHistory) = 100
  /\ \A i \in 1..100 : btcTracker.tradeHistory[i].timestamp = i + 2

(***************************************************************************)
(* Claims about the tracker's observers (SpecTracker).                     *)
(***************************************************************************)
\* The callbacks registered with tracker tr.
Registered(tr) == {tr.updateCallbacks[i] : i \in DOMAIN tr.updateCallbacks}

\* The number of invocations of callback cb in the last call on tracker tr.
Invocations(tr, cb) == Cardinality({i \in DOMAIN tr.invoked : tr.invoked[i].cb = cb})

PartialDelta(orderbook) ==
  /\ ~ (orderbook.bids # None /\ orderbook.asks # None)
  /\ (orderbook.best_bid # None \/ orderbook.best_ask # None)

\* The levels after their first, and the sizes of all levels.
Rest(levels) == IF levels = None \/ Len(levels[1]) = 0 THEN levels ELSE Some(Tail(levels[1]))
LevelSizes(levels) == IF levels = None THEN None ELSE Some([n \in DOMAIN levels[1] |-> levels[1][n].size])

\* The price of the first level is the price given.
TopIs(levels, price) ==
  /\ levels # None
  /\ Len(levels[1]) >= 1
  /\ levels[1][1].price = price[1]

\* C24: a best-bid / best-ask delta for a token of the current market creates
\* a one-level book from the best prices when the outcome has no book, and
\* otherwise leaves every size and every level after the first as it was; in
\* both cases the book's top bid price is then the best bid supplied and its
\* top ask price the best ask supplied.
C24_BestPricesKept ==
  [][\A side \in {"yes", "no"} :
       (/\ IsCall("updateOrderbook") /\ Following
        /\ PartialDelta(trackerCall'[1].arg)
        /\ trackerCall'[1].arg.asset_id = Some(TokenOf(side)))
       => LET delta == trackerCall'[1].arg
              before == btcTracker.marketState[1].orderbook[side]
              after == btcTracker'.marketState[1].orderbook[side]
          IN /\ after # None
             /\ before = None
                  => /\ Len(after[1].bids[1]) <= 1
                     /\ Len(after[1].asks[1]) <= 1
             /\ before # None
                  => /\ Rest(after[1].bids) = Rest(before[1].bids)
                     /\ Rest(after[1].asks) = Rest(before[1].asks)
                     /\ LevelSizes(after[1].bids) = LevelSizes(before[1].bids)
                     /\ LevelSizes(after[1].asks) = LevelSizes(before[1].asks)
             /\ delta.best_bid # None => TopIs(after[1].bids, delta.best_bid)
             /\ delta.best_ask # None => TopIs(after[1].asks, delta.best_ask)]_vars

\* The bid share of an outcome's book over its first ten levels a side, as a
\* fraction: 0 for an outcome with no book or with no depth.
BidShare(book) ==
  IF book = None THEN Ratio(0, 1)
  ELSE LET bidDepth == sumSizes(slice(book[1].bids[1]))
           askDepth == sumSizes(slice(book[1].asks[1]))
       IN IF bidDepth + askDepth = 0 THEN Ratio(0, 1)
          ELSE Ratio(bidDepth, bidDepth + askDepth)

\* C32: getOrderbookAnalysis returns none exactly when there is no market
\* state or neither outcome has an order book; with at least one book it
\* returns an analysis whose imbalance is the yes bid share less the no bid
\* share and lies in [-1, 1].
C32_OrderbookAnalysis ==
  LET r == getOrderbookAnalysis(btcTracker)
      noBooks == \/ btcTracker.marketState = None
                 \/ /\ btcTracker.marketState[1].orderbook.yes = None
                    /\ btcTracker.marketState[1].orderbook.no = None
  IN /\ (r.kind = "null") <=> noBooks
     /\ ~ noBooks
          => /\ r.kind = "analysis"
             /\ LET yes == BidShare(btcTracker.marketState[1].orderbook.yes)
                    no == BidShare(btcTracker.marketState[1].orderbook.no)
                IN r.imbalance = Ratio(yes.num * no.den - no.num * yes.den,
                                       yes.den * no.den)
             /\ r.imbalance.num <= r.imbalance.den
             /\ r.imbalance.num >= - r.imbalance.den

(***************************************************************************)
(* Claims about the sub-signals and the composite (SpecStrategy).          *)
(***************************************************************************)
\* |chainlink percent - binance percent| * 10000, the divergence as the
\* strategy computes it (window changes are in units of 1/PctScale percent).
ComputedDivergence ==
  (Abs(sIn[1].chainlinkFeed[1].change[1] - sIn[1].binanceFeed[1].change[1]) * 10000)
    \div PctScale

\* C21: when both feeds are connected with baselines and the computed
\* divergence exceeds the threshold of 5, as it does for window changes of
\* +0.10% and -0.02%, the feed-comparison sub-signal has score 0 and
\* confidence at most 0.05.
C21_DivergenceSubSignal ==
  (sOut # None /\ BothFeedsLive(sIn[1]) /\ ComputedDivergence > 5)
  => /\ sOut[1].signals.feedComparison.score = 0
     /\ sOut[1].signals.feedComparison.confidence <= Dec(5, 100)

\* The evaluation with +0.10% on chainlink and -0.02% on binance: the
\* sub-signal is 0 with confidence 0.05 next to sub-signals that are not 0.
C21_Witness ==
  /\ sOut # None /\ BothFeedsLive(sIn[1])
  /\ sIn[1].chainlinkFeed[1].change = Some(1000)
  /\ sIn[1].binanceFeed[1].change = Some(-200)
  /\ sOut[1].signals.feedComparison.score = 0
  /\ sOut[1].signals.feedComparison.confidence = Dec(5, 100)
  /\ sOut[1].signals.btcPriceMovement.score > 0
  /\ sOut[1].signals.orderbookImbalance.score # 0

\* A sub-signal degraded to nothing: score 0 and confidence at most 0.2.
Degraded(s) == s.score = 0 /\ s.confidence # NaN /\ s.confidence <= Dec(2, 10)

\* The feed is absent, disconnected or has no window baseline.
FeedMissing(feed) == feed = None \/ ~ feed[1].connected \/ feed[1].change = None

\* The feed the sub-signals read: chainlink when connected, else binance.
PrimaryFeed(in) ==
  IF in.chainlinkFeed # None /\ in.chainlinkFeed[1].connected
  THEN in.chainlinkFeed ELSE in.binanceFeed

\* C22: data faults degrade and do not abort.  Without an order book the
\* order-book sub-signal, with fewer than 5 trades in the window the
\* trade-momentum sub-signal, and with the reference feed absent,
\* disconnected or without baseline the BTC-movement sub-signal, has score 0
\* and confidence at most 0.2; the breakdown has its six sub-signals and the
\* composite; and when all of these inputs are missing no signal is emitted.
C22_DataFaultsDegrade ==
  sOut # None =>
    LET in == sIn[1]
        s == sOut[1].signals
    IN /\ in.orderbookAnalysis = None => Degraded(s.orderbookImbalance)
       /\ in.tradeMomentum.tradeCount < 5 => Degraded(s.tradeMomentum)
       /\ FeedMissing(PrimaryFeed(in)) => Degraded(s.btcPriceMovement)
       /\ DOMAIN s = {"timeDecay", "orderbookImbalance", "tradeMomentum",
                      "btcPriceMovement", "priceInefficiency", "feedComparison",
                      "composite"}
       /\ (/\ in.orderbookAnalysis = None
           /\ in.tradeMomentum.tradeCount < 5
           /\ FeedMissing(in.chainlinkFeed) /\ FeedMissing(in.binanceFeed))
          => sOut[1].signal = None

\* The five weights the boost of the time-decay weight is taken from.
OtherWeights ==
  {"orderbookImbalance", "tradeMomentum", "btcPriceMovement", "priceInefficiency",
   "feedComparison"}

WeightSum(w) ==
  w.timeDecay + w.orderbookImbalance + w.tradeMomentum + w.btcPriceMovement
  + w.priceInefficiency + w.feedComparison

\* An evaluation inside the activation window of the time decay.
EvaluatedInWindow ==
  /\ sOut # None
  /\ sIn[1].minutes >= 0
  /\ sIn[1].minutes < config.timeDecayActivationMinutes

\* C29: inside the activation window each of the other five weights gives up
\* a fifth of what the time-decay weight gains, so the adjusted weights sum to
\* what the configured weights sum to, and with the default configuration no
\* adjusted weight is negative.
C29_ReallocationValid ==
  EvaluatedInWindow
  => LET w == adjustedWeights(sIn[1].minutes)
         added == w.timeDecay - config.weights.timeDecay
     IN /\ added > 0
        /\ \A k \in OtherWeights : 5 * (config.weights[k] - w[k]) = added
        /\ WeightSum(w) = WeightSum(config.weights)
        /\ \A k \in DOMAIN w : w[k] >= 0

\* An evaluation at expiry, where the reallocation is largest: the time-decay
\* weight is 0.55 and the smallest weight 0.04, and the time-decay signal has
\* a direction.
C29_Witness ==
  /\ EvaluatedInWindow
  /\ sIn[1].minutes = 0
  /\ adjustedWeights(0).timeDecay = 550
  /\ adjustedWeights(0).priceInefficiency = 40
  /\ sOut[1].signals.timeDecay.score # 0

\* The six sub-signals of a breakdown.
SubSignals ==
  {"timeDecay", "orderbookImbalance", "tradeMomentum", "btcPriceMovement",
   "priceInefficiency", "feedComparison"}

\* The inputs the ranges are claimed for: outcome prices in [0, 1], an
\* imbalance and a yes ratio as non-negative sizes and volumes give them, and
\* minutes-to-expiry not negative.
InputsInRange(in) ==
  /\ \A o \in {"yes", "no"} :
       /\ in.state.currentPrice[o] # NaN
       /\ in.state.currentPrice[o] >= 0 /\ in.state.currentPrice[o] <= 100
  /\ in.orderbookAnalysis # None
       => /\ Abs(in.orderbookAnalysis[1].imbalance) <= Unit
          /\ in.orderbookAnalysis[1].yesBidDepth >= 0
          /\ in.orderbookAnalysis[1].noBidDepth >= 0
  /\ in.tradeMomentum.yesRatio >= 0 /\ in.tradeMomentum.yesRatio <= 100
  /\ in.tradeMomentum.totalVolume >= 0
  /\ in.minutes >= 0

\* C30: for outcome prices in [0, 1], non-negative sizes and volumes and
\* minutes-to-expiry >= 0, each of the six sub-signals and the composite that
\* analyze returns has its score in [-1, 1] and its confidence in [0, 1], and
\* the composite confidence is at most 0.95.
C30_ScoresInRange ==
  (sOut # None /\ InputsInRange(sIn[1]))
  => LET signals == sOut[1].signals
     IN /\ \A k \in SubSignals :
             /\ signals[k].score # NaN /\ signals[k].confidence # NaN
             /\ signals[k].score >= -Unit /\ signals[k].score <= Unit
             /\ signals[k].confidence >= 0 /\ signals[k].confidence <= Unit
        /\ signals.composite.score # NaN /\ signals.composite.confidence # NaN
        /\ signals.composite.score >= -WUnit /\ signals.composite.score <= WUnit
        /\ signals.composite.confidence >= 0
        /\ signals.composite.confidence <= 95 * (CUnit \div 100)

\* An evaluation with the yes price at 0 inside the activation window: the
\* price-inefficiency score is held at 1 and the time decay has a direction.
C30_Witness ==
  /\ sOut # None /\ InputsInRange(sIn[1])
  /\ sIn[1].state.currentPrice.yes = 0
  /\ sOut[1].signals.priceInefficiency.score = Unit
  /\ sOut[1].signals.timeDecay.score # 0
  /\ sOut[1].signals.orderbookImbalance.score # 0

\* The time decay is active: inside the activation window, with a feed whose
\* prediction has a direction.
TimeDecayActive(in) ==
  /\ in.minutes <= config.timeDecayActivationMinutes
  /\ PrimaryFeed(in) # None
  /\ predictOutcome(PrimaryFeed(in)[1]).direction # "NEUTRAL"

\* c = min(0.95, predictionConfidence x (0.6 + 0.4 x timeMultiplier)), with
\* timeMultiplier = min(1, (activation - minutes) / activation).
DecayConfidence(in) ==
  LET act == config.timeDecayActivationMinutes
      left == Min(act, act - in.minutes)
  IN Min(Dec(95, 100),
         (predictOutcome(PrimaryFeed(in)[1]).confidence * (6 * act + 4 * left))
           \div (10 * act))

\* The price of the outcome the feed predicts.
PredictedPrice(in) ==
  IF predictOutcome(PrimaryFeed(in)[1]).direction = "UP"
  THEN in.state.currentPrice.yes ELSE in.state.currentPrice.no

LedgerReset == trades = <<>> /\ currentCapital = startingCapital

\* The step executes a trade, the first one of its market in the ledger.
FirstTradeOfMarket ==
  /\ call'.op = "executeTrade" /\ call'.ret # None
  /\ Len(trades') = Len(trades) + 1
  /\ \A n \in DOMAIN trades : trades[n].market # call'.ret[1].market

\* C23: reset leaves an empty trade list and the current capital at the
\* starting capital, which is the argument when one is given and the earlier
\* starting capital when none is; and the first trade the agent executes on a
\* market finds the ledger in this state.
C23_ResetAtRotation ==
  [][/\ (call'.op = "reset" /\ call' # call)
        => /\ trades' = <<>>
           /\ currentCapital' = startingCapital'
           /\ startingCapital' \in {startingCapital, maxPositionSize}
     /\ FirstTradeOfMarket => LedgerReset]_vars

\* C26: the window baseline that scoring and settlement read, the one of a
\* connected exchange feed, was taken by startWindow during the market the
\* tracker follows and not during an earlier one.
C26_BaselineOfCurrentMarket ==
  (/\ tracker.currentMarket # None
   /\ isConnected(clients["exchange"])
   /\ clients["exchange"].windowStart)
  => clients["exchange"].windowOf = tracker.currentMarket[1]

\* C27: whenever the tracker's market is replaced by a newly detected
\* market, the ledger holds no open trade that was executed against the
\* market that was replaced.
MarketReplaced ==
  /\ tracker.currentMarket # None
  /\ tracker'.currentMarket # None
  /\ tracker'.currentMarket # tracker.currentMarket

C27_SettledBeforeDiscard ==
  [][MarketReplaced
       => \A n \in DOMAIN trades' :
            trades'[n].market = tracker.currentMarket[1]
              => trades'[n].status # "open"]_vars

\* C36: no paper trade is executed against a market that has already been
\* settled.  Every trade that a cycle executes is opened on the market the
\* tracker holds at that moment, and settleMarket has not run for that
\* market before.
C36_NoTradeAfterSettlement ==
  [][(/\ call'.op = "executeTrade" /\ call'.ret # None
      /\ Len(trades') = Len(trades) + 1)
       => /\ tracker'.currentMarket = Some(call'.ret[1].market)
          /\ call'.ret[1].market \notin agent'.settled]_vars

(***************************************************************************)
(* Claims about overlapping cycles (SpecLoop).                             *)
(***************************************************************************)
\* The number of runCycle calls suspended at an await.
InFlight(a) == a.cycles.orderbooks + a.cycles.market

\* C28: runCycle has no re-entrancy guard.  A runCycle that a running agent
\* enters always becomes one more cycle in flight, whatever number of earlier
\* cycles is still suspended on the order-book refetch or on the market
\* detection; two cycles in flight at once are reachable (the witness).
C28_NoReentrancyGuard ==
  [][(cycle' # None /\ cycle'[1].phase = "enter")
     => InFlight(agent') = InFlight(agent) + 1]_vars

\* The timer has just started a cycle, which awaits the market detection,
\* while an earlier cycle is still suspended on its order-book refetch.
C28_Witness ==
  /\ cycle # None /\ cycle[1].phase = "enter"
  /\ agent.running
  /\ agent.cycles.orderbooks = 1 /\ agent.cycles.market = 1

(***************************************************************************)
(* start() and stop() repeated (agent.ts lines 63-194) and the stream      *)
(* events that reach the tracker through the listeners registered by       *)
(* setupWebSocketHandlers.  Both connections open and a market is found,   *)
(* so that start() runs to its end; the awaits inside it are not places    *)
(* where this model interleaves.  The stream client is the one object made *)
(* by the constructor: wsClient.on(...) adds a listener on every start()   *)
(* and nothing removes one.                                                *)
(***************************************************************************)
MaxStarts == 2

\* emit(event): every registered listener is called with the event in turn.
RECURSIVE deliver(_, _, _)
deliver(tr, event, listeners) ==
  IF listeners = 0 THEN tr
  ELSE LET applied == CASE event.name = "price" -> updatePrice(tr, event.data, clock)
                        [] event.name = "orderbook" -> updateOrderbook(tr, event.data, clock)
                        [] OTHER -> handleTrade(tr, event.data)
       IN deliver(applied, event, listeners - 1)

\* start(): setupWebSocketHandlers, then refreshMarket.
AgentStart ==
  /\ ~ agent.running
  /\ agent.streamHandlers < MaxStarts
  /\ agent' = [agent EXCEPT !.running = TRUE, !.checkInterval = TRUE,
                            !.streamHandlers = @ + 1]
  /\ btcTracker' = processMarket(onUpdate(Called(btcTracker), <<"onMarketUpdate", agent.streamHandlers + 1>>), Market, clock)
  /\ trackerCall' = Some([op |-> "start", arg |-> None, applied |-> 0])
  /\ UNCHANGED <<tracker, now, clock>>

\* stop(): btcTracker.reset() clears the tracker's observers; the listeners
\* on the stream client stay.
AgentStop ==
  /\ agent.running
  /\ agent' = [agent EXCEPT !.running = FALSE, !.checkInterval = FALSE]
  /\ btcTracker' = resetTracker(Called(btcTracker))
  /\ trackerCall' = Some([op |-> "stop", arg |-> None, applied |-> 0])
  /\ UNCHANGED <<tracker, now, clock>>

StreamEvents ==
  {[name |-> "price", data |-> price] : price \in PriceEvents}
  \cup {[name |-> "orderbook", data |-> orderbook] : orderbook \in {b \in BookEvents : b.bids # None /\ b.asks # None}}
  \cup {[name |-> "trade", data |-> trade] : trade \in {t \in TradesAt(0) : t.size = "0.10"}}

\* The stream client of a running agent emits a normalized event.
StreamEmits ==
  /\ agent.running
  /\ Len(btcTracker.tradeHistory) < MaxHistory
  /\ \E event \in StreamEvents :
       /\ btcTracker' = deliver(Called(btcTracker), event, agent.streamHandlers)
       /\ trackerCall' = Some([op |-> event.name, arg |-> event.data, applied |-> agent.streamHandlers])
  /\ UNCHANGED <<agent, tracker, now, clock>>

RestartInit ==
  /\ NoTracker
  /\ newPaperTrader(0)
  /\ sIn = None /\ sOut = None
  /\ NoClients /\ NoAgent /\ NoFrames /\ NoLoop /\ NoSizing
  /\ NoPoll

RestartNext ==
  /\ AgentStart \/ AgentStop \/ StreamEmits
  /\ UNCHANGED <<ledgerVars, strategyVars, streamVars, frameVars, loopVars, sizingVars, pollVars>>

SpecRestart == RestartInit /\ [][RestartNext]_vars

(***************************************************************************)
(* Claims about restarts (SpecRestart).                                    *)
(***************************************************************************)
\* C39: after any sequence of start() and stop() calls each normalized
\* stream event is applied to the tracker exactly once; one trade event of
\* the current market appends one entry to the trade history.
C39_EventAppliedOnce ==
  [][(trackerCall' # None /\ trackerCall'[1].op \in {"price", "orderbook", "trade"})
       => /\ trackerCall'[1].applied = 1
          /\ (/\ trackerCall'[1].op = "trade"
              /\ trackerCall'[1].arg.asset_id \in {"Y1", "N1"})
               => Len(btcTracker'.tradeHistory) = Len(btcTracker.tradeHistory) + 1]_vars

(***************************************************************************)
(* The ledger as runCycle drives it (agent.ts lines 337-366): the signal   *)
(* that generateSignal makes of an evaluation goes to executeTrade as it   *)
(* is.  Closing and resetting are left to an arbitrary caller.  Amounts    *)
(* are in units of price x size, 1/10000 dollar.                           *)
(***************************************************************************)
\* Evaluations at expiry with the exchange feed 0.02% down and sellers
\* ahead: with finite prices (a signal of finite size, or none), and with a
\* yes price that is NaN.
OrderInputs ==
  {[state |-> [conditionId |-> "m1", yesTokenId |-> "Y1", noTokenId |-> "N1",
               currentPrice |-> [yes |-> pp[1], no |-> pp[2]]],
    minutes |-> 0, orderbookAnalysis |-> None,
    tradeMomentum |-> [yesRatio |-> 20, totalVolume |-> 500, tradeCount |-> 6],
    chainlinkFeed |-> Some(Feed("binance", TRUE, Some(-200), 0)),
    binanceFeed |-> None] : pp \in {<<45, 55>>, <<50, 50>>, <<12, 90>>, <<NaN, 55>>}}

\* runCycle lines 356-366: generateSignal, then executeTrade of the signal.
SignalTrade ==
  /\ Len(trades) < MaxTrades
  /\ \E in \in OrderInputs :
       LET signal == generateSignal(in.state, analyze(in))
       IN /\ signal # None
          /\ executeTrade(signal[1].market, signal[1].outcome, signal[1].price, signal[1].size)

\* settleMarket resets with config.maxPositionSize.
OrdersReset == reset(None) \/ reset(Some(maxPositionSize))

OrdersInit ==
  /\ newPaperTrader(maxPositionSize)
  /\ sIn = None /\ sOut = None
  /\ NoClients /\ NoAgent /\ NoFrames /\ NoLoop /\ NoSizing /\ NoTracker
  /\ NoPoll

OrdersNext ==
  /\ SignalTrade \/ CloseTrade \/ CloseAllTrades \/ OrdersReset
  /\ UNCHANGED <<strategyVars, streamVars, agentVars, frameVars, loopVars, sizingVars, trackerVars, pollVars>>

SpecOrders == OrdersInit /\ [][OrdersNext]_vars

(***************************************************************************)
(* Claims about the ledger under the agent's signals (SpecOrders).         *)
(***************************************************************************)
\* The cost of the open trades and the pnl of the closed ones, summed.
RECURSIVE OpenCost(_, _)
OpenCost(ts, k) ==
  IF k > Len(ts) THEN 0
  ELSE plus(IF ts[k].status = "open" THEN ts[k].cost ELSE 0, OpenCost(ts, k + 1))

RECURSIVE ClosedPnl(_, _)
ClosedPnl(ts, k) ==
  IF k > Len(ts) THEN 0
  ELSE plus(IF ts[k].status = "closed" THEN ts[k].pnl[1] ELSE 0, ClosedPnl(ts, k + 1))

\* a === b for numbers: false when either is NaN.
SameNumber(a, b) == a # NaN /\ b # NaN /\ a = b

\* C35: ledger conservation.  In every state the current capital plus the
\* cost of the open trades equals the starting capital plus the pnl of the
\* closed trades, and the trades of the ledger have pairwise distinct ids.
C35_Conservation ==
  /\ SameNumber(plus(currentCapital, OpenCost(trades, 1)),
                plus(startingCapital, ClosedPnl(trades, 1)))
  /\ \A i, j \in DOMAIN trades : trades[i].id = trades[j].id => i = j

(***************************************************************************)
(* ChainlinkBTCFeed (chainlink-feed.ts): the polled reference feed.        *)
(*                                                                         *)
(* poll is the feed object together with what the event loop holds for it: *)
(* the interval timers that are live and the fetches awaiting              *)
(* getLatestReport.  priceHistory only feeds the change24h of the emitted  *)
(* ticker and is left out.                                                 *)
(***************************************************************************)
MaxFetches == 2      \* fetches awaiting their report at one time
MaxIntervals == 2    \* setInterval calls over the life of the feed

ReportPrices == {97000, 97050}
ReportTimes == {1000, 16000}

newChainlinkBTCFeed ==
  [client |-> FALSE, pollInterval |-> 0, currentPrice |-> 0,
   lastUpdateTime |-> 0, updateFrequency |-> 0,
   \* the event loop
   timers |-> {}, nextTimer |-> 1, fetches |-> [connect |-> 0, tick |-> 0],
   \* the console and the emitter
   warned |-> FALSE, scheduled |-> FALSE,
   last |-> [op |-> "new", price |-> 0]]

InFlightFetches(f) == f.fetches.connect + f.fetches.tick

\* The catch block of fetchPrice: the failure is logged and not rethrown.
fetchFailed_clearsTimer(f) ==
  [f EXCEPT !.warned = TRUE, !.timers = @ \ {f.pollInterval}, !.pollInterval = 0]

fetchFailed(f) == [f EXCEPT !.warned = TRUE]

processPrice(f, price, timestamp) ==
  [f EXCEPT !.updateFrequency = IF f.lastUpdateTime > 0 THEN timestamp - f.lastUpdateTime ELSE @,
            !.lastUpdateTime = timestamp,
            !.currentPrice = price]

\* What connect() does once its first fetchPrice has returned: fetchPrice
\* does not reject while the client is set, so the timer is always started.
startPolling(f) ==
  [f EXCEPT !.pollInterval = f.nextTimer,
            !.timers = @ \cup {f.nextTimer},
            !.nextTimer = @ + 1,
            !.scheduled = TRUE]

\* connect(): throws without credentials; otherwise creates the client and
\* awaits the first fetchPrice.
FeedConnect(credentials) ==
  IF ~credentials
  THEN poll' = [poll EXCEPT !.last = [op |-> "connectThrew", price |-> 0]]
  ELSE /\ InFlightFetches(poll) < MaxFetches
       /\ poll.nextTimer + poll.fetches.connect <= MaxIntervals
       /\ poll' = [poll EXCEPT !.client = TRUE,
                               !.fetches.connect = @ + 1,
                               !.last = [op |-> "connect", price |-> 0]]

\* The interval callback: fetchPrice().catch(...).  fetchPrice rejects only
\* when the client is null, and then "error" is emitted.
PollTick(t) ==
  /\ t \in poll.timers
  /\ IF ~poll.client
     THEN poll' = [poll EXCEPT !.last = [op |-> "pollError", price |-> 0]]
     ELSE /\ InFlightFetches(poll) < MaxFetches
          /\ poll' = [poll EXCEPT !.fetches.tick = @ + 1,
                                  !.last = [op |-> "tick", price |-> 0]]

\* getLatestReport settles for one fetch in flight.  A report is decoded and
\* processed; a rejection, a report that does not decode, or a "price"
\* listener that throws ends in the catch block.
FetchSettles(origin, ok, price, timestamp, listenerThrows) ==
  /\ poll.fetches[origin] > 0
  /\ LET taken == [poll EXCEPT !.fetches[origin] = @ - 1]
         fetched == IF ~ok THEN fetchFailed(taken)
                    ELSE IF listenerThrows /\ price # taken.currentPrice
                         THEN fetchFailed(processPrice(taken, price, timestamp))
                         ELSE processPrice(taken, price, timestamp)
         resumed == IF origin = "connect" THEN startPolling(fetched) ELSE fetched
     IN poll' = [resumed EXCEPT !.last = [op |-> IF ok THEN "fetched" ELSE "fetchFailed",
                                          price |-> IF ok THEN price ELSE 0]]

FeedDisconnect ==
  poll' = [poll EXCEPT !.timers = @ \ {poll.pollInterval},
                       !.pollInterval = 0,
                       !.client = FALSE,
                       !.scheduled = FALSE,
                       !.last = [op |-> "disconnect", price |-> 0]]

PollInit ==
  /\ poll = newChainlinkBTCFeed
  /\ newPaperTrader(0)
  /\ sIn = None /\ sOut = None
  /\ NoClients /\ NoAgent /\ NoFrames /\ NoLoop /\ NoSizing /\ NoTracker

PollNext ==
  /\ \/ \E credentials \in BOOLEAN : FeedConnect(credentials)
     \/ \E t \in 1..MaxIntervals : PollTick(t)
     \/ \E origin \in {"connect", "tick"}, ok \in BOOLEAN, price \in ReportPrices, timestamp \in ReportTimes, listenerThrows \in BOOLEAN : FetchSettles(origin, ok, price, timestamp, listenerThrows)
     \/ FeedDisconnect
  /\ UNCHANGED <<ledgerVars, strategyVars, streamVars, agentVars, frameVars, loopVars, sizingVars, trackerVars>>

SpecPoll == PollInit /\ [][PollNext]_vars

(***************************************************************************)
(* Claims about the polled reference feed (SpecPoll).                      *)
(***************************************************************************)
\* C33: a failed fetch never stops polling.  A fetch that fails clears no
\* timer and leaves the client in place; from the moment connect() has
\* scheduled the polling until disconnect(), the timer the feed holds is
\* live; every tick of a feed whose client is set starts a fetch; and a fetch
\* that succeeds leaves the fetched price as the current price.
C33_PollingSurvivesFailure ==
  [][/\ (poll'.last.op = "fetchFailed" /\ poll' # poll)
          => /\ poll.timers \subseteq poll'.timers
             /\ poll'.client = poll.client
             /\ poll.pollInterval # 0 => poll'.pollInterval # 0
     /\ (poll'.client /\ poll'.scheduled)
          => poll'.pollInterval \in poll'.timers
     /\ (poll'.last.op = "tick" /\ poll' # poll)
          => poll'.fetches.tick = poll.fetches.tick + 1
     /\ (poll.client /\ poll'.last.op = "pollError") => poll' = poll
     /\ (poll'.last.op = "fetched" /\ poll' # poll)
          => poll'.currentPrice = poll'.last.price]_vars

\* A fetch has failed and a later one has succeeded, while the feed is
\* polling: the price is the one of the later fetch and a tick is pending.
C33_Witness ==
  /\ poll.warned /\ poll.client /\ poll.scheduled
  /\ poll.last.op = "fetched" /\ poll.currentPrice = 97050
  /\ poll.pollInterval \in poll.timers
  /\ poll.fetches.tick = 1

====
